---- MODULE Spec2Model ----
(***************************************************************************)
(* DR-Arena: the hierarchical web-content tree (crawler, expander) and the *)
(* navigation controller of the evolvement loop that walks and grows it.   *)
(*                                                                         *)
(* Python values are modelled as follows.  None is the reserved string     *)
(* None (no text of the model equals it).  A WebsiteNode and its dict form *)
(* are records; lists are sequences; a reference to a dict node of         *)
(* self.tree is a record [live, pos]: pos is the sequence of child indices *)
(* from the root, live tells whether the object belongs to the dict tree   *)
(* the loop holds now (TRUE) or to one it held before a reload (FALSE).    *)
(***************************************************************************)
EXTENDS Integers, Sequences, FiniteSets, TLC

VARIABLES
    visited_urls,            \* WebsiteTreeCrawler.visited_urls
    random_sampling,         \* WebsiteTreeCrawler.random_sampling
    tree_file,               \* the JSON document stored at tree_file_path
    tree_node,               \* EvolvementLoop.tree_node (WebsiteNode tree)
    tree,                    \* EvolvementLoop.tree (dict tree)
    current_node,            \* EvolvementLoop.current_node (reference)
    node_path_stack,         \* EvolvementLoop.node_path_stack (references)
    conversation_history_a,  \* EvolvementLoop.conversation_history_a
    conversation_history_b,  \* EvolvementLoop.conversation_history_b
    difficulty_nodes,        \* EvolvementLoop.difficulty_nodes
    history_snapshots,       \* EvolvementLoop.history_snapshots
    last,                    \* the operation that ran last, its inputs and result
    calls,                   \* how many of the calls the bounds limit have been made
    tournament,              \* tournament_cli: the battle workers and ALL_DEBATE_FILE
    start_run                \* EvolvementLoop.start(): where it stands, round_count, scores

vars == << visited_urls, random_sampling, tree_file, tree_node, tree,
           current_node, node_path_stack, conversation_history_a,
           conversation_history_b, difficulty_nodes, history_snapshots, last,
           calls, tournament, start_run >>

crawler_vars == << visited_urls, random_sampling >>

loop_vars == << tree_node, tree, current_node, node_path_stack,
                conversation_history_a, conversation_history_b,
                difficulty_nodes, history_snapshots >>

-----------------------------------------------------------------------------
(* Bounds of the model *)

\* crawl_tree is called with max_depth in 0..MaxCrawlDepth
MaxCrawlDepth == 2

\* crawl_tree is called with max_children in 0..MaxCrawlChildren
MaxCrawlChildren == 2

\* one crawler instance makes at most MaxCrawls crawl_tree calls
MaxCrawls == 2

\* at most MaxExpands expander calls are made on one loaded tree
MaxExpands == 1

\* expand_width is called with additional_children in -1..MaxWidthArg
MaxWidthArg == 2

\* _advance_tree is called while history_snapshots is shorter than MaxSnapshots
MaxSnapshots == 2

\* one loop object sees at most MaxEvents expansions, research rounds and
\* difficulty raises
MaxEvents == 2

-----------------------------------------------------------------------------
(* Python helpers *)

None == "<None>"

Min(a, b) == IF a <= b THEN a ELSE b

Max(a, b) == IF a >= b THEN a ELSE b

\* x or ''
OrEmpty(x) == IF x = None THEN "" ELSE x

\* s[:k] for a list s, for every integer k
SlicePrefix(s, k) ==
    IF k >= 0 THEN SubSeq(s, 1, Min(k, Len(s)))
    ELSE SubSeq(s, 1, Max(Len(s) + k, 0))

\* the set of the elements of a list
\* the element of a one-element set
Only(S) == CHOOSE x \in S : TRUE

Range(s) == { s[i] : i \in 1..Len(s) }

-----------------------------------------------------------------------------
(* The web the crawler fetches.  A page is what BeautifulSoup parses out of *)
(* the response: its <title>, its meta descriptions, the text of its main  *)
(* content area and its anchors (href resolved and fragment-stripped).     *)

URLs == {"r", "a", "b", "c"}

Netloc == [u \in URLs |-> "site.org"]

\* one element of the body: its tag, class and id attributes ("" when absent)
\* and the text inside it
Element(tag, class, id, text) == [tag |-> tag, class |-> class, id |-> id, text |-> text]

Anchor(href, text, context) ==
    [href |-> href, anchor_text |-> text, surrounding_text |-> context]

Web ==
    [u \in URLs |->
        CASE u = "r" ->
               [title |-> "Coffee - Site", meta_description |-> None, og_description |-> None,
                raises |-> FALSE,
                elements |-> << Element("header", "", "", "Coffee - Site"),
                                Element("p", "", "", "Coffee") >>,
                anchors |-> << Anchor("a", "Arabica", "the arabica variety of coffee"),
                               Anchor("r", "Coffee", "back to the top of this page"),
                               Anchor("b", "Brewing", "brewing is a method of preparation"),
                               Anchor("c", "Coffee cups", "cups and mugs for serving coffee") >>]
          [] u = "a" ->
               [title |-> "Arabica", meta_description |-> "", og_description |-> None,
                raises |-> FALSE,
                elements |-> << Element("div", "", "top-menu", "Home Arabica Brewing"),
                                Element("main", "", "",
                                        "Arabica beans are grown at altitude in cool shade.") >>,
                anchors |-> << Anchor("b", "Brewing", "brewing arabica beans at home"),
                               Anchor("c", "Coffee cups", "cups sized for arabica espresso") >>]
          [] u = "b" ->
               [title |-> "Brewing", meta_description |-> None,
                og_description |-> "Guide to brewing methods at home",
                raises |-> FALSE,
                elements |-> << Element("p", "", "", "Brewing extracts oils and acids"),
                                Element("p", "", "", "from ground beans  using water") >>,
                anchors |-> << Anchor("c", "Coffee cups", "pour the brew into warm cups"),
                               Anchor("c", "Coffee cups", "rinse the cups before pouring") >>]
          [] OTHER ->
               [title |-> None, meta_description |-> "Cups", og_description |-> None,
                raises |-> FALSE,
                elements |-> << Element("p", "", "", "Cups") >>,
                anchors |-> << >>] ]

NoSoup == [none |-> TRUE]

\* <a href> tags a page may carry besides those above: a second link to page
\* b with a fragment, a link to the page itself with a fragment, a
\* navigational link, a link that is not a web address, a link whose context
\* could not be read (_get_context_around_link returned "") and a link with
\* little text around its anchor
LinkTags ==
    { Anchor("b", "Brewing", "brewing is a method of preparation"),
      Anchor("b#methods", "Brewing methods", "an overview of brewing methods for espresso"),
      Anchor("c", "Coffee cups", "cups and mugs for serving coffee"),
      Anchor("r#top", "Coffee", "back to the top of this page"),
      Anchor("a", "Home", "return to the home page of this site"),
      Anchor("mailto:shop", "Write to the shop", "questions about an order are welcome"),
      Anchor("c", "Coffee cups", ""),
      Anchor("c", "Serving coffee", "see Serving coffee today") }

\* the URLs crawl_tree is started from
RootURLs == {"r", "b"}

\* The orders random.sample may draw links in: the rotations of one order of
\* the URLs and of its reverse (every ordered draw from up to three links is
\* a prefix of one of them).
BaseOrder == << "a", "b", "c", "r" >>

Rotate(s, n) == [i \in 1..Len(s) |-> s[((i + n - 1) % Len(s)) + 1]]

Reverse(s) == [i \in 1..Len(s) |-> s[Len(s) + 1 - i]]

DrawOrders ==
    { Rotate(BaseOrder, n) : n \in 0..(Len(BaseOrder) - 1) }
    \cup { Rotate(Reverse(BaseOrder), n) : n \in 0..(Len(BaseOrder) - 1) }

\* What one call meets on the network: the URLs whose GET fails, and the
\* order random.sample draws links in (when it is used at all).
\* the URLs whose GET may fail
Flaky == {"r", "c"}

\* how the GET of a URL ends while the URL is down: requests.Timeout, a
\* response that is not text/html, a requests.RequestException (raise_for_status
\* included), or another exception while the response is parsed
ResponseKinds == {"html", "non_html", "timeout", "request_error", "parse_error"}

FailureOf ==
    [u \in URLs |-> CASE u = "r" -> "timeout"
                      [] u = "c" -> "non_html"
                      [] u = "a" -> "request_error"
                      [] OTHER -> "parse_error"]

Downs == SUBSET Flaky


-----------------------------------------------------------------------------
(* models/tree_models.py *)

LinkContext(url, anchor_text, surrounding_text, relationship) ==
    [url |-> url, anchor_text |-> anchor_text,
     surrounding_text |-> surrounding_text, relationship |-> relationship]

\* WebsiteNode(url=, domain=, depth=, relationship_cluster=), other fields default
WebsiteNode(url, domain, depth, relationship_cluster) ==
    [url |-> url, domain |-> domain, title |-> None, description |-> None,
     content |-> None, crawled |-> FALSE, depth |-> depth, children |-> << >>,
     link_contexts |-> << >>, error |-> None,
     relationship_cluster |-> relationship_cluster]

\* d.get(k)
Get(d, k) == IF k \in DOMAIN d THEN d[k] ELSE None

\* d.get(k) or []
GetList(d, k) == IF k \in DOMAIN d THEN d[k] ELSE << >>

LinkContext_to_dict(ctx) ==
    [url |-> ctx.url, anchor_text |-> ctx.anchor_text,
     surrounding_text |-> ctx.surrounding_text, relationship |-> ctx.relationship]

\* a reader that forgets the relationship of a link
LinkContext_from_dict_bare(data) ==
    LinkContext(data.url, data.anchor_text, data.surrounding_text, None)

LinkContext_from_dict(data) ==
    LinkContext(data.url, data.anchor_text, data.surrounding_text,
                Get(data, "relationship"))

RECURSIVE to_dict(_)
to_dict(node) ==
    [url |-> node.url, domain |-> node.domain, title |-> node.title,
     description |-> node.description, content |-> node.content,
     crawled |-> node.crawled, depth |-> node.depth, error |-> node.error,
     relationship_cluster |-> node.relationship_cluster,
     link_contexts |-> [i \in 1..Len(node.link_contexts) |->
                           LinkContext_to_dict(node.link_contexts[i])],
     children |-> [i \in 1..Len(node.children) |-> to_dict(node.children[i])]]

RECURSIVE from_dict(_)
from_dict(data) ==
    [url |-> data.url, domain |-> data.domain, title |-> Get(data, "title"),
     description |-> Get(data, "description"), content |-> Get(data, "content"),
     crawled |-> IF "crawled" \in DOMAIN data THEN data.crawled ELSE FALSE,
     depth |-> IF "depth" \in DOMAIN data THEN data.depth ELSE 0,
     error |-> Get(data, "error"),
     relationship_cluster |-> Get(data, "relationship_cluster"),
     link_contexts |-> IF "link_contexts" \in DOMAIN data
                       THEN [i \in 1..Len(data.link_contexts) |->
                                LinkContext_from_dict(data.link_contexts[i])]
                       ELSE << >>,
     children |-> IF "children" \in DOMAIN data
                  THEN [i \in 1..Len(data.children) |-> from_dict(data.children[i])]
                  ELSE << >>]

\* utils/io_utils.py: the file holds the JSON of node.to_dict()
\* the fields declared Optional[str]
OptionalFields ==
    {"title", "description", "content", "error", "relationship_cluster",
     "relationship"}

\* json.dump writes None as null and a string, number or boolean as itself;
\* json.load reads null back as None
json_value(k, v) ==
    IF k \in OptionalFields
    THEN IF v = None THEN [null |-> TRUE] ELSE [null |-> FALSE, value |-> v]
    ELSE v

python_value(k, j) ==
    IF k \in OptionalFields THEN IF j.null THEN None ELSE j.value
    ELSE j

\* the document json.dump writes for the dict of a tree
RECURSIVE json_dump(_)
json_dump(d) ==
    [url |-> json_value("url", d.url),
     domain |-> json_value("domain", d.domain),
     title |-> json_value("title", d.title),
     description |-> json_value("description", d.description),
     content |-> json_value("content", d.content),
     crawled |-> json_value("crawled", d.crawled),
     depth |-> json_value("depth", d.depth),
     error |-> json_value("error", d.error),
     relationship_cluster |->
         json_value("relationship_cluster", d.relationship_cluster),
     link_contexts |->
         [i \in 1..Len(d.link_contexts) |->
             [url |-> json_value("url", d.link_contexts[i].url),
              anchor_text |->
                  json_value("anchor_text", d.link_contexts[i].anchor_text),
              surrounding_text |->
                  json_value("surrounding_text",
                             d.link_contexts[i].surrounding_text),
              relationship |->
                  json_value("relationship", d.link_contexts[i].relationship)]],
     children |-> [i \in 1..Len(d.children) |-> json_dump(d.children[i])]]

\* the dict json.load reads from the document
RECURSIVE json_load(_)
json_load(text) ==
    [url |-> python_value("url", text.url),
     domain |-> python_value("domain", text.domain),
     title |-> python_value("title", text.title),
     description |-> python_value("description", text.description),
     content |-> python_value("content", text.content),
     crawled |-> python_value("crawled", text.crawled),
     depth |-> python_value("depth", text.depth),
     error |-> python_value("error", text.error),
     relationship_cluster |->
         python_value("relationship_cluster", text.relationship_cluster),
     link_contexts |->
         [i \in 1..Len(text.link_contexts) |->
             [url |-> python_value("url", text.link_contexts[i].url),
              anchor_text |->
                  python_value("anchor_text", text.link_contexts[i].anchor_text),
              surrounding_text |->
                  python_value("surrounding_text",
                             text.link_contexts[i].surrounding_text),
              relationship |->
                  python_value("relationship", text.link_contexts[i].relationship)]],
     children |-> [i \in 1..Len(text.children) |-> json_load(text.children[i])]]

save_tree_to_json(node) == json_dump(to_dict(node))

load_tree_from_json(file) == from_dict(json_load(file))

-----------------------------------------------------------------------------
(* Walking a tree by position *)

RECURSIVE NodeAt(_, _)
NodeAt(t, pos) ==
    IF pos = << >> THEN t ELSE NodeAt(t.children[Head(pos)], Tail(pos))

RECURSIVE ReplaceAt(_, _, _)
ReplaceAt(t, pos, n) ==
    IF pos = << >> THEN n
    ELSE [t EXCEPT !.children[Head(pos)] = ReplaceAt(@, Tail(pos), n)]

\* every position of the tree, in depth-first pre-order
RECURSIVE Positions(_)
RECURSIVE PositionsFrom(_, _)
Positions(t) == << << >> >> \o PositionsFrom(t, 1)

PositionsFrom(t, i) ==
    IF i > Len(t.children) THEN << >>
    ELSE LET sub == Positions(t.children[i])
         IN [j \in 1..Len(sub) |-> << i >> \o sub[j]] \o PositionsFrom(t, i + 1)

PositionSet(t) == Range(Positions(t))

-----------------------------------------------------------------------------
(* utils/crawler_utils.py: WebsiteTreeCrawler *)

MinContentLen == 50

extract_domain(url) == Netloc[url]

\* session.get(url): the response, or the exception raised in its place; the
\* parsed page carries, for its <a href> tags, what _extract_links makes of each
respond(url, env) ==
    [kind |-> IF url \in env.down THEN FailureOf[url] ELSE "html",
     page |-> Web[url] @@ [links |-> env.links]]

\* a fetch that lets a parse error through as an empty result
fetch_unclassified(response) ==
    CASE response.kind = "html" -> [soup |-> response.page, error |-> None]
      [] response.kind = "timeout" -> [soup |-> NoSoup, error |-> "Timeout"]
      [] OTHER -> [soup |-> NoSoup, error |-> None]

\* the try block of _crawl_page and its except clauses: (soup, error)
fetch(response) ==
    CASE response.kind = "timeout" -> [soup |-> NoSoup, error |-> "Timeout"]
      [] response.kind = "request_error" ->
             [soup |-> NoSoup, error |-> "Request error: HTTPError"]
      [] response.kind = "parse_error" ->
             [soup |-> NoSoup, error |-> "Parse error: ValueError"]
      [] response.kind = "non_html" ->
             [soup |-> NoSoup, error |-> "Non-HTML content"]
      [] OTHER -> [soup |-> response.page, error |-> None]

\* (soup, error) of one GET
crawl_page(url, env) == fetch(respond(url, env))

\* a failure that is not recorded on the node
fetch_failed_unrecorded(node, error) == [node EXCEPT !.crawled = FALSE]

\* node.error = error or "Unknown error"; node.crawled = False
fetch_failed(node, error) ==
    [node EXCEPT !.error = IF error # None THEN error ELSE "Unknown error",
                 !.crawled = FALSE]

extract_metadata(soup) ==
    [title |-> soup.title,
     description |-> IF soup.meta_description # None THEN soup.meta_description
                     ELSE IF soup.og_description # None THEN soup.og_description
                     ELSE None]

\* str.lower() on the letters A..Z
UpperCase == "ABCDEFGHIJKLMNOPQRSTUVWXYZ"

LowerCase == "abcdefghijklmnopqrstuvwxyz"

LowerChar(c) ==
    IF \E i \in 1..Len(UpperCase) : SubSeq(UpperCase, i, i) = c
    THEN LET i == CHOOSE i \in 1..Len(UpperCase) : SubSeq(UpperCase, i, i) = c
         IN SubSeq(LowerCase, i, i)
    ELSE c

RECURSIVE Lower(_)
Lower(s) ==
    IF Len(s) = 0 THEN ""
    ELSE LowerChar(SubSeq(s, 1, 1)) \o Lower(SubSeq(s, 2, Len(s)))

\* ind in s
Occurs(ind, s) ==
    \E i \in 1..(Len(s) - Len(ind) + 1) : SubSeq(s, i, i + Len(ind) - 1) = ind

\* str.strip() and re.sub(r'\s+', ' ', text) on texts whose whitespace is spaces
RECURSIVE StripLeft(_)
StripLeft(s) ==
    IF Len(s) > 0 /\ SubSeq(s, 1, 1) = " " THEN StripLeft(SubSeq(s, 2, Len(s)))
    ELSE s

RECURSIVE StripRight(_)
StripRight(s) ==
    IF Len(s) > 0 /\ SubSeq(s, Len(s), Len(s)) = " "
    THEN StripRight(SubSeq(s, 1, Len(s) - 1))
    ELSE s

StripText(s) == StripRight(StripLeft(s))

RECURSIVE CollapseSpaces(_)
CollapseSpaces(s) ==
    IF Len(s) < 2 THEN s
    ELSE IF SubSeq(s, 1, 2) = "  " THEN CollapseSpaces(SubSeq(s, 2, Len(s)))
    ELSE SubSeq(s, 1, 1) \o CollapseSpaces(SubSeq(s, 2, Len(s)))

\* get_text(separator=' ', strip=True) over the elements: the stripped texts
\* that are not empty, joined by one space
RECURSIVE get_text(_)
get_text(elements) ==
    IF elements = << >> THEN ""
    ELSE Only({ IF first = "" THEN rest
                ELSE IF rest = "" THEN first
                ELSE first \o " " \o rest :
                  first \in { StripText(Head(elements).text) },
                  rest \in { get_text(Tail(elements)) } })

\* the elements that are decomposed before the content area is looked for
unwanted_tags ==
    {"script", "style", "noscript", "iframe", "embed", "nav", "header", "footer",
     "aside", "form", "button", "input", "select", "textarea"}

unwanted_patterns ==
    {"nav", "menu", "sidebar", "footer", "header", "advertisement", "ad-",
     "social", "share", "comment", "related", "recommended", "cookie", "banner",
     "popup", "modal"}

main_terms == {"content", "main", "article", "body", "post"}

unwanted(element) ==
    \/ element.tag \in unwanted_tags
    \/ \E pattern \in unwanted_patterns :
          \/ Occurs(pattern, Lower(element.class))
          \/ Occurs(pattern, Lower(element.id))

\* the four main_patterns, in the order they are tried
main_pattern(n, element) ==
    CASE n = 1 -> element.tag = "main"
      [] n = 2 -> element.tag = "article"
      [] n = 3 -> /\ element.tag = "div"
                  /\ \E term \in main_terms : Occurs(term, Lower(element.class))
      [] OTHER -> /\ element.tag = "div"
                  /\ \E term \in main_terms : Occurs(term, Lower(element.id))

\* the elements of the content area: the first element the first matching
\* pattern finds, else the body (else the whole document)
\* found: the pairs (pattern, index) of the kept elements a pattern matches
first_found(kept, found) ==
    IF found = {} THEN kept
    ELSE << kept[(CHOOSE p \in found :
                     \A q \in found :
                         p[1] < q[1] \/ (p[1] = q[1] /\ p[2] <= q[2]))[2]] >>

main_content(elements) ==
    Only({ first_found(kept, { p \in (1..4) \X (1..Len(kept)) :
                                 main_pattern(p[1], kept[p[2]]) }) :
             kept \in { SelectSeq(elements, LAMBDA e : ~ unwanted(e)) } })

\* the cleaned text with runs of whitespace collapsed
content_text(soup) == CollapseSpaces(get_text(main_content(soup.elements)))

\* a length test that also rejects a text of exactly 50 characters
too_short_or_equal(text) == Len(text) <= MinContentLen

\* if len(text) < 50: return None
too_short(text) == Len(text) < MinContentLen

\* soup.raises: an exception is raised inside the try block
extract_content(soup) ==
    IF soup.raises THEN None
    ELSE Only({ IF too_short(text) THEN None ELSE text :
                  text \in { content_text(soup) } })

\* the content of each page above, worked out once
extracted_content == [u \in URLs |-> extract_content(Web[u])]

\* the relationships dict, in the order its items are walked
relationships ==
    <<
       [relationship |-> "origins/locations",
        indicators |-> <<
           "country", "region", "origin", "from", "grown in", "produced in",
           "colombian", "brazilian", "ethiopian", "kenyan", "yunnan",
           "sumatra", "africa", "asia", "america", "continent", "colombia",
           "brazil", "ethiopia", "kenya", "yemen", "vietnam", "indonesia",
           "java" >>],
       [relationship |-> "types/varieties",
        indicators |-> <<
           "type", "variety", "species", "kind", "form", "class", "category",
           "arabica", "robusta", "liberica", "typica", "bourbon",
           "different", "various", "several" >>],
       [relationship |-> "processes/methods",
        indicators |-> <<
           "process", "method", "technique", "how to", "way", "procedure",
           "roasting", "brewing", "grinding", "ferment", "dry", "wet",
           "preparation", "making", "processing", "production" >>],
       [relationship |-> "products/drinks",
        indicators |-> <<
           "drink", "beverage", "product", "serve", "espresso", "cappuccino",
           "latte", "americano", "macchiato", "mocha", "frappe" >>],
       [relationship |-> "components/ingredients",
        indicators |-> <<
           "contains", "ingredient", "chemical", "compound", "element",
           "caffeine", "acid", "oil", "antioxidant", "flavor", "aroma",
           "composition", "molecule" >>],
       [relationship |-> "history/timeline",
        indicators |-> <<
           "history", "origin", "ancient", "traditional", "first",
           "discover", "century", "year", "era", "period", "historical",
           "originally", "began", "started" >>],
       [relationship |-> "people/organizations",
        indicators |-> <<
           "company", "brand", "founder", "person", "grower", "farmer",
           "organization", "association", "expert", "barista" >>],
       [relationship |-> "health/effects",
        indicators |-> <<
           "health", "benefit", "effect", "impact", "risk", "study",
           "research", "disease", "medical", "nutrition" >>],
       [relationship |-> "culture/economics",
        indicators |-> <<
           "culture", "social", "ritual", "ceremony", "tradition", "economy",
           "trade", "market", "price", "industry", "business" >>],
       [relationship |-> "equipment/tools",
        indicators |-> <<
           "machine", "equipment", "tool", "grinder", "maker", "pot",
           "filter", "press", "device" >>]
    >>

\* for relationship, indicators in relationships.items():
\*     if any(ind in combined for ind in indicators): return relationship
RECURSIVE first_relationship(_, _)
first_relationship(items, combined) ==
    IF items = << >> THEN "related topics"
    ELSE IF \E n \in 1..Len(Head(items).indicators) :
                Occurs(Head(items).indicators[n], combined)
    THEN Head(items).relationship
    ELSE first_relationship(Tail(items), combined)

\* a classifier that also reads the title of the parent page
infer_relationship_with_title(anchor_text, context, parent_title) ==
    first_relationship(relationships,
                       Lower(anchor_text) \o " " \o Lower(context) \o " "
                           \o Lower(IF parent_title = None THEN "" ELSE parent_title))

infer_relationship(anchor_text, context, parent_title) ==
    first_relationship(relationships,
                       Lower(anchor_text) \o " " \o Lower(context))

\* the relationship of each anchor of the pages above under each title,
\* worked out once
PageTitles == { Web[u].title : u \in URLs }

PageAnchors == UNION { Range(Web[u].anchors) : u \in URLs } \cup LinkTags

inferred_relationship ==
    [a \in PageAnchors, title \in PageTitles |->
        infer_relationship(a.anchor_text, a.surrounding_text, title)]

\* absolute_url.startswith(('http://', 'https://')): the page names stand for
\* http addresses, an href with a scheme of its own does not
startswith_http(absolute_url) == ~ Occurs(":", absolute_url)

\* _normalize_url: the URL without its fragment
normalize_url(url) ==
    IF Occurs("#", url)
    THEN SubSeq(url, 1, (CHOOSE i \in 1..Len(url) :
                            /\ SubSeq(url, i, i) = "#"
                            /\ \A j \in 1..(i - 1) : SubSeq(url, j, j) # "#") - 1)
    ELSE url

\* if self.allow_all_domains: return True (every caller passes
\* allow_all_domains=True)
is_allowed_domain(url) == TRUE

\* str.replace(old, ''), old not empty
RECURSIVE Remove(_, _)
Remove(s, old) ==
    IF Len(s) < Len(old) THEN s
    ELSE IF SubSeq(s, 1, Len(old)) = old
         THEN Remove(SubSeq(s, Len(old) + 1, Len(s)), old)
         ELSE SubSeq(s, 1, 1) \o Remove(SubSeq(s, 2, Len(s)), old)

\* len(s.split())
word_count(s) ==
    Cardinality({ i \in 1..Len(s) :
                    /\ SubSeq(s, i, i) # " "
                    /\ (i = 1 \/ SubSeq(s, i - 1, i - 1) = " ") })

\* str.isdigit()
isdigit(s) ==
    /\ Len(s) > 0
    /\ \A i \in 1..Len(s) :
          SubSeq(s, i, i) \in {"0", "1", "2", "3", "4", "5", "6", "7", "8", "9"}

navigational_terms ==
    {"home", "homepage", "main page", "back", "top", "menu", "navigation",
     "login", "log in", "sign in", "sign up", "register", "subscribe",
     "share", "tweet", "facebook", "email", "print", "download",
     "click here", "read more", "more", "see more", "learn more",
     "here", "this", "next", "previous", "prev", "continue",
     "help", "about", "about us", "contact", "privacy", "terms",
     "comments", "discussion", "talk", "forum",
     "pdf", "xml", "rss", "atom", "feed"}

skip_url_patterns ==
    {"login", "signin", "signup", "register", "subscribe",
     "special:", "talk:", "user:", "action=edit", "action=history"}

MinContextLen == 20

\* _is_meaningful_link
is_meaningful_link(link_ctx, parent_title) ==
    LET anchor == Only({ Lower(x) : x \in {link_ctx.anchor_text} })
        context == Only({ Lower(x) : x \in {link_ctx.surrounding_text} })
        url == Only({ Lower(x) : x \in {link_ctx.url} })
    IN IF anchor = "" \/ Len(anchor) < 2 THEN FALSE
       ELSE IF anchor \in navigational_terms THEN FALSE
       ELSE IF isdigit(anchor) \/ Len(anchor) = 1 THEN FALSE
       ELSE IF SubSeq(anchor, 1, 1) = "[" /\ SubSeq(anchor, Len(anchor), Len(anchor)) = "]"
            THEN FALSE
       ELSE IF \E pattern \in skip_url_patterns : Occurs(pattern, url) THEN FALSE
       ELSE IF context # "" /\ Len(StripText(Remove(context, anchor))) < MinContextLen
            THEN FALSE
       ELSE IF word_count(anchor) = 1 /\ Len(anchor) <= 4 THEN FALSE
       ELSE IF word_count(anchor) > 8 THEN FALSE
       ELSE TRUE

\* _extract_links on one <a href> tag: the normalised address, and whether the
\* link passes the scheme, self-link, domain and meaningful-link checks
link_of(a, base_url, filter_meaningful) ==
    Only({ [url |-> normalized_url,
            kept |-> /\ startswith_http(a.href)
                     /\ normalized_url # normalize_url(base_url)
                     /\ is_allowed_domain(normalized_url)
                     /\ \/ ~ filter_meaningful
                        \/ is_meaningful_link(LinkContext(normalized_url, a.anchor_text,
                                                          a.surrounding_text, None), None)] :
           normalized_url \in { normalize_url(a.href) } })

\* the outcome for each <a href> tag on each page, for a crawler constructed
\* with the given filter_meaningful
link_tags_extracted(filter_meaningful) ==
    [a \in PageAnchors, base_url \in URLs |-> link_of(a, base_url, filter_meaningful)]

\* the outcome for each anchor of the pages above on each page, worked out once
\* and handed to the crawl with the pages it fetches
\* (WebsiteTreeCrawler(allow_all_domains=True): filter_meaningful is True)
extracted_link == link_tags_extracted(TRUE)

\* _extract_links over the <a href> tags from the first of anchors on
RECURSIVE extract_links_from(_, _, _, _)
extract_links_from(anchors, links, base_url, parent_title) ==
    IF anchors = << >> THEN << >>
    ELSE LET a == Head(anchors)
             rest == extract_links_from(Tail(anchors), links, base_url, parent_title)
         IN Only({ IF link.kept
                   THEN << LinkContext(link.url, a.anchor_text, a.surrounding_text,
                                       inferred_relationship[a, parent_title]) >> \o rest
                   ELSE rest :
                   link \in { links[a, base_url] } })

extract_links(soup, base_url, parent_title) ==
    extract_links_from(soup.anchors, soup.links, base_url, parent_title)

\* what the network holds for one run: the addresses that fail, the order
\* random.sample draws in, and the link tags of the pages as extracted
Envs(sampling) ==
    [down : Downs, order : IF sampling THEN DrawOrders ELSE {BaseOrder},
     links : {extracted_link}]

\* random.sample(available, k): the k links drawn, in the order drawn
RECURSIVE InOrder(_, _)
InOrder(links, order) ==
    IF order = << >> THEN << >>
    ELSE SelectSeq(links, LAMBDA l : l.url = Head(order)) \o InOrder(links, Tail(order))

\* a draw of one link more than asked for
random_sample_one_more(available, k, env) ==
    SubSeq(InOrder(available, env.order), 1, k + 1)

random_sample(available, k, env) == SubSeq(InOrder(available, env.order), 1, k)

\* if node.depth >= max_depth: return
\* a depth check that lets the crawl go one level past max_depth
max_depth_reached_late(node, max_depth) == node.depth > max_depth

max_depth_reached(node, max_depth) == node.depth >= max_depth

\* WebsiteNode(url=link_ctx.url, domain=..., depth=node.depth + 1,
\*             relationship_cluster=link_ctx.relationship)
new_child(node, link_ctx) ==
    WebsiteNode(link_ctx.url, extract_domain(link_ctx.url), node.depth + 1,
                link_ctx.relationship)

\* a test that lets a visited URL through
already_visited_never(node, visited) == FALSE

\* if node.url in self.visited_urls
already_visited(node, visited) == node.url \in visited

\* _crawl_node: the node as it is left, self.visited_urls, and the URLs that
\* were passed to _crawl_page, in order (fetched: those before this call)
RECURSIVE crawl_node(_, _, _, _, _, _, _)
RECURSIVE crawl_children(_, _, _, _, _, _, _, _)
crawl_node(node, visited, fetched, max_depth, max_children, sampling, env) ==
    IF already_visited(node, visited)
    THEN [node |-> [node EXCEPT !.error = "Already visited", !.crawled = FALSE],
          visited |-> visited, fetched |-> fetched]
    ELSE
      LET v1 == visited \cup {node.url}
          f1 == Append(fetched, node.url)
          got == crawl_page(node.url, env)
      IN IF got.error # None \/ got.soup = NoSoup
         THEN [node |-> fetch_failed(node, got.error), visited |-> v1,
               fetched |-> f1]
         ELSE
           LET md == extract_metadata(got.soup)
               n1 == [node EXCEPT !.title = md.title,
                                  !.description = md.description,
                                  !.crawled = TRUE,
                                  !.content = extracted_content[node.url]]
           IN IF max_depth_reached(n1, max_depth)
              THEN [node |-> n1, visited |-> v1, fetched |-> f1]
              ELSE
                LET link_contexts == extract_links(got.soup, n1.url, n1.title)
                    n2 == [n1 EXCEPT !.link_contexts = link_contexts]
                    available_links ==
                        SelectSeq(link_contexts, LAMBDA l : l.url \notin v1)
                    selected_links ==
                        IF sampling /\ Len(available_links) > max_children
                        THEN random_sample(available_links, max_children, env)
                        ELSE SlicePrefix(available_links, max_children)
                IN crawl_children(n2, v1, f1, selected_links, max_depth,
                                  max_children, sampling, env)

crawl_children(node, visited, fetched, selected_links, max_depth, max_children, sampling, env) ==
    IF selected_links = << >>
    THEN [node |-> node, visited |-> visited, fetched |-> fetched]
    ELSE
      LET link_ctx == Head(selected_links)
          child_node == new_child(node, link_ctx)
          done == crawl_node(child_node, visited, fetched, max_depth,
                             max_children, sampling, env)
      IN crawl_children([node EXCEPT !.children = Append(@, done.node)],
                        done.visited, done.fetched, Tail(selected_links),
                        max_depth, max_children, sampling, env)

\* crawl_tree: [node, visited, fetched]
crawl_tree(root_url, visited, max_depth, max_children, sampling, env) ==
    crawl_node(WebsiteNode(root_url, extract_domain(root_url), 0, None),
               visited, << >>, max_depth, max_children, sampling, env)

-----------------------------------------------------------------------------
(* expand_tree.py *)

NotFound == [found |-> FALSE, pos |-> << >>]

\* find_node_by_url: the node found, given by its position, or None
RECURSIVE find_node_by_url(_, _)
RECURSIVE find_node_in_children(_, _, _)
find_node_by_url(root, url) ==
    IF root.url = url THEN [found |-> TRUE, pos |-> << >>]
    ELSE find_node_in_children(root, url, 1)

find_node_in_children(root, url, i) ==
    IF i > Len(root.children) THEN NotFound
    ELSE LET result == find_node_by_url(root.children[i], url)
         IN IF result.found
            THEN [found |-> TRUE, pos |-> << i >> \o result.pos]
            ELSE find_node_in_children(root, url, i + 1)

collect_all_visited_urls(node) ==
    { NodeAt(node, p).url : p \in PositionSet(node) }

\* the child both expansions create for a link and crawl one level deep
\* (expand_width lines 290-318, expand_depth lines 419-439)
crawled_child(parent, link_ctx, env) ==
    LET child_node == new_child(parent, link_ctx)
        got == crawl_page(child_node.url, env)
    IN IF got.error # None \/ got.soup = NoSoup
       THEN fetch_failed(child_node, got.error)
       ELSE LET md == extract_metadata(got.soup)
            IN [child_node EXCEPT
                   !.title = md.title,
                   !.description = md.description,
                   !.crawled = TRUE,
                   !.content = extracted_content[child_node.url],
                   !.link_contexts = extract_links(got.soup, child_node.url, md.title)]

\* the links of node that are not yet children of it, in link order
\* ("We don't check crawler.visited_urls here")
\* a width expansion gated by the visited set, as the crawl is
available_links_unvisited(node, visited) ==
    LET existing_urls == { node.children[i].url : i \in 1..Len(node.children) }
    IN SelectSeq(node.link_contexts,
                 LAMBDA l : l.url \notin existing_urls /\ l.url \notin visited)

\* a list of links that still holds the links of the children
available_links_all(node, visited) == node.link_contexts

available_links(node, visited) ==
    LET existing_urls == { node.children[i].url : i \in 1..Len(node.children) }
    IN SelectSeq(node.link_contexts, LAMBDA l : l.url \notin existing_urls)

\* a slice that takes one link more than requested
links_to_add_one_more(available, additional_children) ==
    SlicePrefix(available, additional_children + 1)

\* links_to_add = available_links[:additional_children]
links_to_add(available, additional_children) ==
    SlicePrefix(available, additional_children)

RECURSIVE add_children(_, _, _, _, _)
add_children(node, visited, new_urls, links, env) ==
    IF links = << >>
    THEN [node |-> node, visited |-> visited, new_urls |-> new_urls]
    ELSE LET link_ctx == Head(links)
             child_node == crawled_child(node, link_ctx, env)
         IN add_children([node EXCEPT !.children = Append(@, child_node)],
                         (visited \ {child_node.url}) \cup {child_node.url},
                         new_urls \cup {child_node.url}, Tail(links), env)

\* expand_width: [node, visited, added, new_urls], and fetched: the URLs
\* passed to _crawl_page, one for each link of links_to_add
expand_width(node, visited, additional_children, env) ==
    IF ~node.crawled
    THEN [node |-> node, visited |-> visited, added |-> 0, new_urls |-> {},
          fetched |-> << >>]
    ELSE
      LET available == available_links(node, visited)
      IN IF available = << >>
         THEN [node |-> node, visited |-> visited, added |-> 0, new_urls |-> {},
               fetched |-> << >>]
         ELSE
           LET links == links_to_add(available, additional_children)
               done == add_children(node, visited, {}, links, env)
           IN [node |-> done.node, visited |-> done.visited,
               added |-> Len(links), new_urls |-> done.new_urls,
               fetched |-> [i \in 1..Len(links) |-> links[i].url]]

RECURSIVE find_max_depth(_)
find_max_depth(n) ==
    IF n.children = << >> THEN n.depth
    ELSE LET ds == { find_max_depth(n.children[i]) : i \in 1..Len(n.children) }
         IN CHOOSE d \in ds : \A e \in ds : e <= d

count_nodes(n) == Cardinality(PositionSet(n))

\* a count that takes max_children as the number of children to add
children_needed_additional(parent_node, max_children) == max_children

\* needed = max_children - len(parent_node.children)
children_needed(parent_node, max_children) ==
    max_children - Len(parent_node.children)

\* a re-crawl that does not ask whether the node was crawled
is_leaf_to_recrawl_any(parent_node, max_depth) ==
    parent_node.link_contexts = << >> /\ parent_node.depth < max_depth

\* if parent_node.crawled and not parent_node.link_contexts and
\* parent_node.depth < max_depth
is_leaf_to_recrawl(parent_node, max_depth) ==
    /\ parent_node.crawled
    /\ parent_node.link_contexts = << >>
    /\ parent_node.depth < max_depth

RECURSIVE crawl_children_recursive(_, _, _, _, _, _)
RECURSIVE recurse_into_children(_, _, _, _, _, _, _)
crawl_children_recursive(parent_node, visited, new_urls, max_depth, max_children, env) ==
    IF parent_node.depth >= max_depth
    THEN [node |-> parent_node, visited |-> visited, new_urls |-> new_urls]
    ELSE
      LET existing_child_urls ==
              { parent_node.children[i].url : i \in 1..Len(parent_node.children) }
          got == crawl_page(parent_node.url, env)
          p1 == IF /\ is_leaf_to_recrawl(parent_node, max_depth)
                   /\ ~(got.error # None \/ got.soup = NoSoup)
                THEN [parent_node EXCEPT
                         !.link_contexts = extract_links(got.soup, parent_node.url,
                                                        parent_node.title)]
                ELSE parent_node
          available ==
              SelectSeq(p1.link_contexts, LAMBDA l : l.url \notin existing_child_urls)
          needed == children_needed(p1, max_children)
          grown == IF p1.link_contexts # << >> /\ needed > 0 /\ available # << >>
                   THEN add_children(p1, visited, new_urls,
                                     SlicePrefix(available, needed), env)
                   ELSE [node |-> p1, visited |-> visited, new_urls |-> new_urls]
      IN recurse_into_children(grown.node, grown.visited, grown.new_urls, 1,
                               max_depth, max_children, env)

recurse_into_children(parent_node, visited, new_urls, i, max_depth, max_children, env) ==
    IF i > Len(parent_node.children)
    THEN [node |-> parent_node, visited |-> visited, new_urls |-> new_urls]
    ELSE LET done == crawl_children_recursive(parent_node.children[i], visited,
                                              new_urls, max_depth, max_children, env)
         IN recurse_into_children(
                [parent_node EXCEPT !.children[i] = done.node],
                done.visited, done.new_urls, i + 1, max_depth, max_children, env)

\* expand_depth: [node, visited, added, new_urls]
expand_depth(node, visited, additional_depth, max_children, env) ==
    IF ~node.crawled
    THEN [node |-> node, visited |-> visited, added |-> 0, new_urls |-> {}]
    ELSE
      LET target_depth == find_max_depth(node) + additional_depth
          done == crawl_children_recursive(node, visited, {}, target_depth,
                                           max_children, env)
      IN [node |-> done.node, visited |-> done.visited,
          added |-> count_nodes(done.node) - count_nodes(node),
          new_urls |-> done.new_urls]

-----------------------------------------------------------------------------
(* State before any tree exists *)

NoTree == [none |-> TRUE]

NoRef == [live |-> FALSE, pos |-> << >>]

Idle == [op |-> "none"]

\* no tournament is being played
NoTournament == [none |-> TRUE]

\* __init__: round_count = 0, score_a = score_b = 0.0, start() not called
NotStarted == [pc |-> "idle", round_count |-> 0, score_a |-> 0, score_b |-> 0]

InitCrawler ==
    /\ visited_urls = {}
    /\ random_sampling \in BOOLEAN
    /\ tree_file = NoTree
    /\ tree_node = NoTree
    /\ tree = NoTree
    /\ current_node = NoRef
    /\ node_path_stack = << >>
    /\ conversation_history_a = << >>
    /\ conversation_history_b = << >>
    /\ difficulty_nodes = 2
    /\ history_snapshots = << 0 >>
    /\ last = Idle
    /\ calls = 0
    /\ tournament = NoTournament
    /\ start_run = NotStarted

\* crawl.py / generate_dataset.py: one crawler instance crawls a root and the
\* tree is saved
CrawlTree ==
    \E root_url \in RootURLs, max_depth \in 0..MaxCrawlDepth,
       max_children \in 0..MaxCrawlChildren, env \in Envs(random_sampling) :
        LET done == crawl_tree(root_url, visited_urls, max_depth, max_children,
                               random_sampling, env)
        IN /\ calls < MaxCrawls
           /\ calls' = calls + 1
           /\ visited_urls' = done.visited
           /\ tree_file' = save_tree_to_json(done.node)
           /\ last' = [op |-> "crawl_tree", max_depth |-> max_depth,
                       max_children |-> max_children, ret |-> done.node,
                       visited_before |-> visited_urls,
                       fetched |-> done.fetched,
                       fetched_before |-> IF last.op = "crawl_tree"
                                          THEN last.fetched_before \o last.fetched
                                          ELSE << >>]
           /\ UNCHANGED << tournament, start_run, random_sampling, loop_vars >>

NextCrawl == CrawlTree

SpecCrawl == InitCrawler /\ [][NextCrawl]_vars

-----------------------------------------------------------------------------
(* The expander applied to trees the crawler produced *)

\* the trees a fresh crawler returns
CrawlOutputs ==
    { crawl_tree(root_url, {}, max_depth, max_children, env.sampling, env).node :
        root_url \in RootURLs, max_depth \in 0..MaxCrawlDepth,
        max_children \in 0..MaxCrawlChildren,
        env \in [down : Downs, order : DrawOrders, sampling : BOOLEAN,
                links : {extracted_link}] }

\* the arguments the evolvement loop passes to expand_depth
AdditionalDepth == 1

DepthMaxChildren == 3

\* expand_tree.py main(): the tree is loaded from its file and a fresh crawler
\* is made (allow_all_domains=True, the other arguments default)
InitExpand ==
    /\ \E t \in CrawlOutputs :
          /\ tree_file = save_tree_to_json(t)
          /\ tree_node = load_tree_from_json(save_tree_to_json(t))
    /\ visited_urls = {}
    /\ random_sampling = TRUE
    /\ tree = NoTree
    /\ current_node = NoRef
    /\ node_path_stack = << >>
    /\ conversation_history_a = << >>
    /\ conversation_history_b = << >>
    /\ difficulty_nodes = 2
    /\ history_snapshots = << 0 >>
    /\ last = Idle
    /\ calls = 0
    /\ tournament = NoTournament
    /\ start_run = NotStarted

nav_vars == << tree, current_node, node_path_stack, conversation_history_a,
               conversation_history_b, difficulty_nodes, history_snapshots >>

\* expand_width(node, crawler, additional_children) on a node of the tree,
\* the crawler's visited set restored from the tree as the callers do
ExpandWidth ==
    \E pos \in PositionSet(tree_node), k \in (-1)..MaxWidthArg,
       env \in Envs(FALSE) :
        LET node == NodeAt(tree_node, pos)
            visited == collect_all_visited_urls(tree_node)
            done == expand_width(node, visited, k, env)
        IN /\ calls < MaxExpands
           /\ calls' = calls + 1
           /\ tree_node' = ReplaceAt(tree_node, pos, done.node)
           /\ visited_urls' = done.visited
           /\ last' = [op |-> "expand_width", pos |-> pos, node |-> node,
                       k |-> k, visited |-> visited,
                       added |-> done.added, new_urls |-> done.new_urls,
                       fetched |-> done.fetched]
           /\ UNCHANGED << tournament, start_run, random_sampling, tree_file, nav_vars >>

\* expand_depth(node, crawler, additional_depth=1, max_children) on a node of
\* the tree, max_children up to the 3 the evolvement loop passes
ExpandDepth ==
    \E pos \in PositionSet(tree_node), max_children \in 1..DepthMaxChildren,
       env \in Envs(FALSE) :
        LET node == NodeAt(tree_node, pos)
            visited == collect_all_visited_urls(tree_node)
            done == expand_depth(node, visited, AdditionalDepth,
                                 max_children, env)
        IN /\ calls < MaxExpands
           /\ calls' = calls + 1
           /\ tree_node' = ReplaceAt(tree_node, pos, done.node)
           /\ visited_urls' = done.visited
           /\ last' = [op |-> "expand_depth", pos |-> pos, node |-> node,
                       additional_depth |-> AdditionalDepth,
                       max_children |-> max_children,
                       added |-> done.added, new_urls |-> done.new_urls]
           /\ UNCHANGED << tournament, start_run, random_sampling, tree_file, nav_vars >>

NextExpand == ExpandWidth \/ ExpandDepth

SpecExpand == InitExpand /\ [][NextExpand]_vars

-----------------------------------------------------------------------------
(* core/evolvement_loop.py: EvolvementLoop *)

SubstantialLen == 20

AdvanceLen == 20

RelaxedLen == 50

DifficultyFloor == 2

\* str.strip(): the texts of the model carry no leading or trailing whitespace
\* (the crawler stores them stripped)
Strip(s) == s

Ref(pos) == [live |-> TRUE, pos |-> pos]

\* an object of a dict tree the loop no longer holds
Stale(ref) == [ref EXCEPT !.live = FALSE]

Deref(t, ref) == NodeAt(t, ref.pos)

\* the nodes from the root down to the node at pos
PathTo(pos) == [i \in 1..(Len(pos) + 1) |-> Ref(SubSeq(pos, 1, i - 1))]

\* the loop object: its fields, and what the method that ran last returned
Loop ==
    [tree_file |-> tree_file, tree_node |-> tree_node, tree |-> tree,
     visited_urls |-> visited_urls, current_node |-> current_node,
     node_path_stack |-> node_path_stack,
     conversation_history_a |-> conversation_history_a,
     conversation_history_b |-> conversation_history_b,
     difficulty_nodes |-> difficulty_nodes,
     history_snapshots |-> history_snapshots,
     ret |-> FALSE, reloaded |-> FALSE]

is_valid_node(node) ==
    LET has_content == Strip(OrEmpty(Get(node, "content")))
        has_desc == Strip(OrEmpty(Get(node, "description")))
        has_title == Strip(OrEmpty(Get(node, "title")))
    IN \/ has_content # "" \/ has_desc # "" \/ has_title # ""
       \/ Len(GetList(node, "children")) > 0

node_has_content(node) ==
    LET raw_content == Strip(OrEmpty(Get(node, "content")))
        raw_desc == Strip(OrEmpty(Get(node, "description")))
    IN Len(raw_content) > SubstantialLen \/ Len(raw_desc) > SubstantialLen

\* traverse: the valid nodes, each given by its position (the length of the
\* position is the length of the path to it)
candidates(t) ==
    SelectSeq(Positions(t), LAMBDA p : Len(p) >= 0 /\ is_valid_node(NodeAt(t, p)))

\* a jump that takes the root as readily as any other node
depth_unfiltered_candidates(cands) == cands

depth_filtered_candidates(cands) ==
    LET filtered == SelectSeq(cands, LAMBDA p : Len(p) >= 1)
    IN IF filtered = << >> THEN cands ELSE filtered

\* a jump that takes a candidate of any depth
any_depth_candidates(cands) == cands

shallowest_candidates(cands) ==
    LET min_depth == CHOOSE d \in { Len(cands[i]) : i \in 1..Len(cands) } :
                        \A i \in 1..Len(cands) : d <= Len(cands[i])
    IN SelectSeq(cands, LAMBDA p : Len(p) = min_depth)

\* the positions random.choice may select in _jump_to_random_start
jump_choices(t) ==
    LET cands == candidates(t)
        depth_filtered == depth_filtered_candidates(cands)
        content_candidates ==
            SelectSeq(depth_filtered, LAMBDA p : node_has_content(NodeAt(t, p)))
    IN IF cands = << >> THEN { << >> }
       ELSE IF content_candidates # << >>
       THEN Range(shallowest_candidates(content_candidates))
       ELSE Range(shallowest_candidates(depth_filtered))

\* a jump that forgets the ancestors of the selected node
jump_path_bare(pos) == << Ref(pos) >>

\* self.node_path_stack = path + [selected_node]
jump_path(pos) == PathTo(pos)

jump_to_random_start(L, pos) ==
    [L EXCEPT !.current_node = Ref(pos), !.node_path_stack = jump_path(pos),
              !.ret = FALSE, !.reloaded = FALSE]

\* a lookup that does not descend below the root
find_path_root_only(root, url) ==
    IF Get(root, "url") = url THEN [found |-> TRUE, pos |-> << >>]
    ELSE [found |-> FALSE, pos |-> << >>]

\* find_path of _auto_expand_tree: the path to the first node with this URL
RECURSIVE find_path(_, _)
RECURSIVE find_path_in_children(_, _, _)
find_path(root, url) ==
    IF Get(root, "url") = url THEN [found |-> TRUE, pos |-> << >>]
    ELSE find_path_in_children(root, url, 1)

find_path_in_children(root, url, i) ==
    IF i > Len(GetList(root, "children")) THEN NotFound
    ELSE LET p == find_path(root.children[i], url)
         IN IF p.found THEN [found |-> TRUE, pos |-> << i >> \o p.pos]
            ELSE find_path_in_children(root, url, i + 1)

\* a re-resolution that looks for the expanded node instead
target_url_real(current_url, target_url) == target_url

\* current_url_real = self.current_node.get('url')
current_url_real(current_url, target_url) == current_url

\* target_url and mode of _auto_expand_tree
expand_target(L, failure_type) ==
    IF failure_type = "insufficient_depth"
    THEN [url |-> Get(Deref(L.tree, L.current_node), "url"), mode |-> "DEPTH"]
    ELSE IF failure_type = "insufficient_width" /\ Len(L.node_path_stack) >= 2
    THEN [url |-> Get(Deref(L.tree,
                            L.node_path_stack[Len(L.node_path_stack) - 1]), "url"),
          mode |-> "WIDTH"]
    ELSE [url |-> None, mode |-> None]

\* _auto_expand_tree from save_tree_to_json on: the tree is written, read back
\* and the position is looked up in the new dict tree
resolve(L, file, loaded, dict, target_url) ==
    LET url == current_url_real(Get(Deref(L.tree, L.current_node), "url"),
                                target_url)
        new_path == find_path(dict, url)
        fresh == [L EXCEPT !.tree_file = file, !.tree_node = loaded,
                           !.tree = dict, !.reloaded = TRUE]
    IN IF new_path.found
       THEN [fresh EXCEPT !.node_path_stack = PathTo(new_path.pos),
                          !.current_node = Ref(new_path.pos),
                          !.ret = TRUE]
       ELSE [fresh EXCEPT !.node_path_stack =
                              [i \in 1..Len(L.node_path_stack) |->
                                  Stale(L.node_path_stack[i])],
                          !.current_node = Stale(L.current_node),
                          !.ret = FALSE]

reload_and_resolve(L, target_url) ==
    Only({ resolve(L, file, loaded, to_dict(loaded), target_url) :
             file \in { save_tree_to_json(L.tree_node) },
             loaded \in { load_tree_from_json(save_tree_to_json(L.tree_node)) } })

\* a version that writes and reloads the file whatever was added
after_expansion_always(L, target_url, pos, done) ==
    Only({ reload_and_resolve(g, target_url) :
             g \in { [L EXCEPT !.tree_node = ReplaceAt(@, pos, done.node),
                               !.visited_urls = done.visited,
                               !.ret = FALSE, !.reloaded = FALSE] } })

\* a version that keeps the grown tree in memory only
after_expansion_unsaved(L, target_url, pos, done) ==
    [L EXCEPT !.tree_node = ReplaceAt(@, pos, done.node),
              !.visited_urls = done.visited,
              !.ret = done.added > 0, !.reloaded = FALSE]

\* _auto_expand_tree once the expansion has run on the node at pos
after_expansion(L, target_url, pos, done) ==
    LET grown == [L EXCEPT !.tree_node = ReplaceAt(@, pos, done.node),
                           !.visited_urls = done.visited,
                           !.ret = FALSE, !.reloaded = FALSE]
    IN IF done.added > 0
       THEN Only({ reload_and_resolve(g, target_url) : g \in {grown} })
       ELSE grown

auto_expand_tree(L, failure_type, required_amount, env) ==
    LET target == expand_target(L, failure_type)
        failed == [L EXCEPT !.ret = FALSE, !.reloaded = FALSE]
    IN IF target.url = None \/ target.url = "" THEN failed
       ELSE
         LET node_obj == find_node_by_url(L.tree_node, target.url)
         IN IF ~node_obj.found THEN failed
            ELSE
              LET visited == collect_all_visited_urls(L.tree_node)
                  node == NodeAt(L.tree_node, node_obj.pos)
              IN Only({ after_expansion(L, target.url, node_obj.pos, done) :
                          done \in { IF target.mode = "DEPTH"
                                     THEN expand_depth(node, visited,
                                              AdditionalDepth, DepthMaxChildren, env)
                                     ELSE expand_width(node, visited,
                                              required_amount, env) } })

\* a chain that runs up to the current node
reasoning_chain_with_current(stack) ==
    IF Len(stack) >= 3 THEN SubSeq(stack, Len(stack) - 1, Len(stack))
    ELSE IF Len(stack) = 2 THEN << stack[1] >>
    ELSE << >>

\* _get_context_nodes: self.node_path_stack[-3:-1], or [self.node_path_stack[0]]
reasoning_chain(stack) ==
    IF Len(stack) >= 3 THEN SubSeq(stack, Len(stack) - 2, Len(stack) - 1)
    ELSE IF Len(stack) = 2 THEN << stack[1] >>
    ELSE << >>

\* (n.get('title') or "").strip()
node_title(node) == Strip(OrEmpty(Get(node, "title")))

\* a filter that does not compare titles
RECURSIVE unique_candidates_any_title(_, _, _, _)
unique_candidates_any_title(all_siblings, i, seen_titles, current_url) ==
    IF i > Len(all_siblings) THEN << >>
    ELSE IF /\ Get(all_siblings[i], "url") # current_url
            /\ is_valid_node(all_siblings[i])
         THEN << i >> \o unique_candidates_any_title(all_siblings, i + 1,
                                                     seen_titles, current_url)
         ELSE unique_candidates_any_title(all_siblings, i + 1, seen_titles,
                                          current_url)

\* _get_context_nodes: the indexes of the siblings kept as unique_candidates,
\* from sibling i on: another URL than the current node's, a title that is
\* empty or not seen yet, and a valid node
RECURSIVE unique_candidates(_, _, _, _)
unique_candidates(all_siblings, i, seen_titles, current_url) ==
    IF i > Len(all_siblings) THEN << >>
    ELSE LET n == all_siblings[i]
             t == node_title(n)
         IN IF /\ Get(n, "url") # current_url
               /\ (t = "" \/ t \notin seen_titles)
               /\ is_valid_node(n)
            THEN << i >> \o unique_candidates(all_siblings, i + 1,
                                IF t # "" THEN seen_titles \cup {t} ELSE seen_titles,
                                current_url)
            ELSE unique_candidates(all_siblings, i + 1, seen_titles, current_url)

\* random.sample(population, count): the ordered draws without replacement
sample_of(population, count) ==
    { s \in [1..count -> Range(population)] :
        \A i, j \in 1..count : i # j => s[i] # s[j] }

\* what a call of _get_context_nodes that raised leaves
ContextRaised ==
    [raised |-> TRUE, reasoning_chain |-> << >>, aggregation_pool |-> << >>]

\* _get_context_nodes: the results it may return, one per draw of
\* random.sample; self.current_node.get('title', '').strip() raises when the
\* title stored for the current node is None
get_context_nodes(L) ==
    LET stack == L.node_path_stack
        chain == reasoning_chain(stack)
    IN IF Len(stack) >= 2
       THEN LET parent_node == stack[Len(stack) - 1]
                all_siblings == GetList(Deref(L.tree, parent_node), "children")
                current == Deref(L.tree, L.current_node)
            IN IF Get(current, "title") = None THEN { ContextRaised }
               ELSE LET unique == unique_candidates(all_siblings, 1,
                                      {Strip(Get(current, "title"))},
                                      Get(current, "url"))
                        needed == Max(0, L.difficulty_nodes - 1)
                        count == Min(Len(unique), needed)
                    IN { [raised |-> FALSE, reasoning_chain |-> chain,
                          aggregation_pool |->
                              << L.current_node >> \o
                              [k \in 1..count |-> Ref(parent_node.pos \o << s[k] >>)]] :
                         s \in sample_of(unique, count) }
       ELSE { [raised |-> FALSE, reasoning_chain |-> chain,
               aggregation_pool |-> << L.current_node >>] }

\* a setup that asks for difficulty_nodes children more, whatever the parent has
width_shortfall_whole(L) ==
    IF L.difficulty_nodes > 1 /\ Len(L.node_path_stack) >= 2
    THEN LET parent == L.node_path_stack[Len(L.node_path_stack) - 1]
             siblings == GetList(Deref(L.tree, parent), "children")
         IN IF Len(siblings) < L.difficulty_nodes THEN L.difficulty_nodes ELSE 0
    ELSE 0

\* start(), at the head of a round: missing = self.difficulty_nodes -
\* len(siblings) when the parent of the current node has fewer children than
\* difficulty_nodes; 0 stands for no request
width_shortfall(L) ==
    IF L.difficulty_nodes > 1 /\ Len(L.node_path_stack) >= 2
    THEN LET parent == L.node_path_stack[Len(L.node_path_stack) - 1]
             siblings == GetList(Deref(L.tree, parent), "children")
         IN IF Len(siblings) < L.difficulty_nodes
            THEN L.difficulty_nodes - Len(siblings)
            ELSE 0
    ELSE 0

\* start(), at the head of a round:
\* self._auto_expand_tree("insufficient_width", missing)
round_setup(L, missing, env) ==
    IF missing > 0 THEN auto_expand_tree(L, "insufficient_width", missing, env)
    ELSE [L EXCEPT !.ret = FALSE, !.reloaded = FALSE]

\* if len(self.node_path_stack) > 1
can_backtrack(L) == Len(L.node_path_stack) > 1

\* a refusal that also resets the difficulty, as start() does after it
backtrack_refused_reset(L) ==
    [L EXCEPT !.difficulty_nodes = DifficultyFloor,
              !.ret = FALSE, !.reloaded = FALSE]

\* return False
backtrack_refused(L) == [L EXCEPT !.ret = FALSE, !.reloaded = FALSE]

\* a width that keeps falling below the floor
lowered_difficulty_unbounded(difficulty_nodes_) == difficulty_nodes_ - 1

\* max(2, self.difficulty_nodes - 1)
lowered_difficulty(difficulty_nodes_) == Max(DifficultyFloor, difficulty_nodes_ - 1)

\* a restore that keeps the whole conversation
restore_history_kept(history, restore_idx) == history

\* self.conversation_history_a[:restore_idx]
restore_history(history, restore_idx) == SlicePrefix(history, restore_idx)

backtrack(L) ==
    IF can_backtrack(L)
    THEN
      LET stack == SubSeq(L.node_path_stack, 1, Len(L.node_path_stack) - 1)
          snaps == L.history_snapshots
          restore_idx == snaps[Len(snaps)]
          popped ==
              IF snaps # << >>
              THEN [L EXCEPT
                      !.history_snapshots = SubSeq(snaps, 1, Len(snaps) - 1),
                      !.conversation_history_a = restore_history(@, restore_idx),
                      !.conversation_history_b = restore_history(@, restore_idx)]
              ELSE L
      IN [popped EXCEPT !.node_path_stack = stack,
                        !.current_node = stack[Len(stack)],
                        !.difficulty_nodes = lowered_difficulty(@),
                        !.ret = TRUE, !.reloaded = FALSE]
    ELSE backtrack_refused(L)

\* the children of the current node whose stripped content is longer than n
valid_children(L, n) ==
    LET raw_children == GetList(Deref(L.tree, L.current_node), "children")
    IN { i \in 1..Len(raw_children) :
           Len(Strip(OrEmpty(Get(raw_children[i], "content")))) > n }

\* the descent of _advance_tree into the child random.choice picked
descend(L, i) ==
    LET best_child == Ref(L.current_node.pos \o << i >>)
    IN [L EXCEPT !.history_snapshots = Append(@, Len(L.conversation_history_a)),
                 !.current_node = best_child,
                 !.node_path_stack = Append(@, best_child),
                 !.ret = TRUE]

\* a retry that keeps the 20-character threshold after the expansion
advance_expanded_same_threshold(expanded) ==
    LET second == IF expanded.ret THEN valid_children(expanded, AdvanceLen)
                  ELSE {}
    IN IF second # {} THEN { descend(expanded, i) : i \in second }
       ELSE { [expanded EXCEPT !.ret = FALSE] }

\* _advance_tree after its call of _auto_expand_tree
advance_expanded(expanded) ==
    LET second == IF expanded.ret THEN valid_children(expanded, RelaxedLen)
                  ELSE {}
    IN IF second # {} THEN { descend(expanded, i) : i \in second }
       ELSE { [expanded EXCEPT !.ret = FALSE] }

\* _advance_tree: the loop objects it may end in, one per child random.choice
\* may pick
advance_tree(L, env) ==
    LET start == [L EXCEPT !.ret = FALSE, !.reloaded = FALSE]
        first == valid_children(start, AdvanceLen)
    IN IF first # {} THEN { descend(start, i) : i \in first }
       ELSE UNION { advance_expanded(expanded) :
                      expanded \in { auto_expand_tree(start, "insufficient_depth",
                                                      1, env) } }

-----------------------------------------------------------------------------
(* The navigation controller on a tree the crawler produced *)

\* the trees the loop is started on: crawled by a fresh crawler that takes the
\* first max_children links of each page
LoopTrees ==
    { crawl_tree(root_url, {}, max_depth, MaxCrawlChildren, FALSE,
                 [down |-> down, order |-> BaseOrder, links |-> extracted_link]).node :
        root_url \in RootURLs, max_depth \in 0..MaxCrawlDepth, down \in Downs }

\* the fetches of one expansion the loop runs: an expansion takes links in
\* page order, and no page but r links to r, so r is never fetched
LoopEnvs ==
    [down : SUBSET (Flaky \ {"r"}), order : {BaseOrder}, links : {extracted_link}]

\* EvolvementLoop.__init__ on a tree file
\* __init__ on the tree file of one of the given trees
InitOn(trees) ==
    /\ \E t \in trees :
          /\ tree_file = save_tree_to_json(t)
          /\ tree_node = load_tree_from_json(save_tree_to_json(t))
          /\ tree = to_dict(load_tree_from_json(save_tree_to_json(t)))
    /\ visited_urls = {}
    /\ random_sampling = TRUE
    /\ current_node = Ref(<< >>)
    /\ node_path_stack = << Ref(<< >>) >>
    /\ conversation_history_a = << >>
    /\ conversation_history_b = << >>
    /\ difficulty_nodes = 2
    /\ history_snapshots = << 0 >>
    /\ last = Idle
    /\ calls = 0
    /\ tournament = NoTournament
    /\ start_run = NotStarted

InitLoop == InitOn(LoopTrees)

\* the fields of the loop object after a method has run
Assigns(L) ==
    /\ tree_file' = L.tree_file
    /\ tree_node' = L.tree_node
    /\ tree' = L.tree
    /\ visited_urls' = L.visited_urls
    /\ current_node' = L.current_node
    /\ node_path_stack' = L.node_path_stack
    /\ conversation_history_a' = L.conversation_history_a
    /\ conversation_history_b' = L.conversation_history_b
    /\ difficulty_nodes' = L.difficulty_nodes
    /\ history_snapshots' = L.history_snapshots
    /\ UNCHANGED << random_sampling, tournament >>

\* the same for a method called outside start()
Becomes(L) == Assigns(L) /\ UNCHANGED start_run

JumpToRandomStart ==
    \E pos \in jump_choices(tree) :
        /\ Becomes(jump_to_random_start(Loop, pos))
        /\ last' = [op |-> "jump_to_random_start", ret |-> FALSE, reloaded |-> FALSE]
        /\ UNCHANGED calls

AutoExpandTree ==
    \E failure_type \in {"insufficient_depth", "insufficient_width"},
       required_amount \in 1..MaxWidthArg, env \in LoopEnvs :
        /\ calls < MaxEvents
        /\ failure_type = "insufficient_depth" => required_amount = 1
        /\ \E L \in { auto_expand_tree(Loop, failure_type, required_amount, env) } :
           /\ Becomes(L)
           /\ last' = [op |-> "auto_expand_tree", ret |-> L.ret,
                       reloaded |-> L.reloaded, failure_type |-> failure_type]
           /\ calls' = calls + 1

Backtrack ==
    \E L \in { backtrack(Loop) } :
       /\ Becomes(L)
       /\ last' = [op |-> "backtrack", ret |-> L.ret, reloaded |-> FALSE,
                   snapshots_before |-> Len(history_snapshots),
                   history_before |-> Len(conversation_history_a)]
       /\ UNCHANGED calls

AdvanceTree ==
    \E env \in LoopEnvs :
        /\ Len(history_snapshots) < MaxSnapshots
        /\ valid_children(Loop, AdvanceLen) = {} => calls < MaxEvents
        /\ \E L \in advance_tree(Loop, env) :
           /\ Becomes(L)
           /\ last' = [op |-> "advance_tree", ret |-> L.ret,
                       reloaded |-> L.reloaded,
                       stack_before |-> node_path_stack,
                       history_a_before |-> Len(conversation_history_a),
                       history_b_before |-> Len(conversation_history_b)]
           /\ calls' = IF valid_children(Loop, AdvanceLen) = {} THEN calls + 1
                       ELSE calls

\* start(): both agents research the question; an agent's history is extended
\* by its two messages unless the call returned none or raised
Research ==
    \E got_a \in BOOLEAN, got_b \in BOOLEAN :
        LET msgs == << "user_question", "assistant" >>
        IN /\ calls < MaxEvents
           /\ conversation_history_a' =
                 IF got_a THEN conversation_history_a \o msgs
                 ELSE conversation_history_a
           /\ conversation_history_b' =
                 IF got_b THEN conversation_history_b \o msgs
                 ELSE conversation_history_b
           /\ last' = [op |-> "research", ret |-> FALSE, reloaded |-> FALSE]
           /\ calls' = calls + 1
           /\ UNCHANGED << tournament, start_run, crawler_vars, tree_file, tree_node, tree, current_node,
                           node_path_stack, difficulty_nodes, history_snapshots >>

\* start(): self.difficulty_nodes += 1
Widen ==
    /\ calls < MaxEvents
    /\ difficulty_nodes' = difficulty_nodes + 1
    /\ last' = [op |-> "widen", ret |-> FALSE, reloaded |-> FALSE]
    /\ calls' = calls + 1
    /\ UNCHANGED << tournament, start_run, crawler_vars, tree_file, tree_node, tree, current_node,
                    node_path_stack, conversation_history_a,
                    conversation_history_b, history_snapshots >>

\* start(): if not self._backtrack(): self.difficulty_nodes = 2
FallbackDifficulty == 2

FallbackReset ==
    /\ last.op = "backtrack"
    /\ ~ last.ret
    /\ difficulty_nodes' = FallbackDifficulty
    /\ last' = [op |-> "fallback_reset", ret |-> FALSE, reloaded |-> FALSE]
    /\ UNCHANGED << tournament, start_run, crawler_vars, tree_file, tree_node, tree, current_node,
                    node_path_stack, conversation_history_a,
                    conversation_history_b, history_snapshots, calls >>

\* start(): the head of a round, up to the call of _get_context_nodes
RoundSetup ==
    \E env \in LoopEnvs, missing \in { width_shortfall(Loop) } :
        /\ missing > 0 => calls < MaxEvents
        /\ \E L \in { round_setup(Loop, missing, env) } :
           /\ Becomes(L)
           /\ last' = [op |-> "round_setup", ret |-> L.ret, reloaded |-> L.reloaded,
                       requested |-> missing]
           /\ calls' = IF missing > 0 THEN calls + 1 ELSE calls

\* start(): context_struct = self._get_context_nodes(), right after the
\* head of the round
GetContextNodes ==
    /\ last.op = "round_setup"
    /\ \E context_struct \in get_context_nodes(Loop) :
          last' = [op |-> "get_context_nodes", ret |-> FALSE, reloaded |-> FALSE,
                   raised |-> context_struct.raised,
                   reasoning_chain |-> context_struct.reasoning_chain,
                   aggregation_pool |-> context_struct.aggregation_pool]
    /\ UNCHANGED << tournament, start_run, crawler_vars, tree_file, loop_vars, calls >>

Next ==
    \/ JumpToRandomStart
    \/ AutoExpandTree
    \/ Backtrack
    \/ AdvanceTree
    \/ Research
    \/ Widen
    \/ FallbackReset
    \/ RoundSetup
    \/ GetContextNodes

Spec == InitLoop /\ [][Next]_vars

-----------------------------------------------------------------------------
(* core/evolvement_loop.py: start(), the round loop *)

MIN_ROUNDS == 1

MAX_ROUNDS == 10

WIN_THRESHOLD == 2

\* _get_node_text writes a "Description:" or a "Content:" line for a node that
\* has a description or a content (has_meat)
has_meat(node) ==
    \/ Strip(OrEmpty(Get(node, "description"))) # ""
    \/ Strip(OrEmpty(Get(node, "content"))) # ""

\* "Content:" in t_text_combined or "Description:" in t_text_combined
has_target_content(L, context_struct) ==
    \E k \in 1..Len(context_struct.aggregation_pool) :
        has_meat(Deref(L.tree, context_struct.aggregation_pool[k]))

\* what the collaborators return in one round: whether the examiner's task
\* carries an error, which agents answer, and the judge's result (a parse
\* failure, a tie of two good answers, a clear win)
Judgements ==
    { [verdict |-> "ERROR", tie_quality |-> "N/A", loser_failure |-> "NONE"],
      [verdict |-> "[[Tie]]", tie_quality |-> "HIGH", loser_failure |-> "NONE"],
      [verdict |-> "[[B_MUCH_BETTER]]", tie_quality |-> "N/A", loser_failure |-> "BOTH"] }

RoundOutcomes ==
    [task_error : BOOLEAN, got_a : {TRUE}, got_b : {TRUE}, result : Judgements]

\* the two research calls of a round and the histories they extend
research_both(L, got_a, got_b) ==
    LET msgs == << "user_question", "assistant" >>
    IN [L EXCEPT !.conversation_history_a = IF got_a THEN @ \o msgs ELSE @,
                 !.conversation_history_b = IF got_b THEN @ \o msgs ELSE @]

round_winner(verdict) ==
    IF Occurs("[[A_", verdict) THEN "A"
    ELSE IF Occurs("[[B_", verdict) THEN "B"
    ELSE "Tie"

points(verdict) == IF Occurs("MUCH_BETTER", verdict) THEN 2 ELSE 1

scored(run, verdict) ==
    CASE round_winner(verdict) = "A" -> [run EXCEPT !.score_a = @ + points(verdict)]
      [] round_winner(verdict) = "B" -> [run EXCEPT !.score_b = @ + points(verdict)]
      [] OTHER -> run

\* self.round_count >= MIN_ROUNDS and score_diff >= WIN_THRESHOLD
mercy_rule(run) ==
    /\ run.round_count >= MIN_ROUNDS
    /\ \/ run.score_a - run.score_b >= WIN_THRESHOLD
       \/ run.score_b - run.score_a >= WIN_THRESHOLD

\* self.difficulty_nodes += 1
wider(L) == [L EXCEPT !.difficulty_nodes = @ + 1]

\* "[EVOLUTION] Determining Next Step...": the loop objects the step may end in
next_step(L, result, env) ==
    IF round_winner(result.verdict) = "Tie"
    THEN IF result.tie_quality = "LOW"
         THEN { IF can_backtrack(L) THEN backtrack(L)
                ELSE [backtrack(L) EXCEPT !.difficulty_nodes = FallbackDifficulty] }
         ELSE advance_tree(wider(L), env)
    ELSE IF result.loser_failure = "DEEP"
         THEN { IF moved.ret THEN moved ELSE wider(moved) : moved \in advance_tree(L, env) }
    ELSE IF result.loser_failure = "WIDE" THEN { wider(L) }
    ELSE IF result.loser_failure \in {"BOTH", "NONE"} THEN advance_tree(wider(L), env)
    ELSE { L }

\* self.round_count -= 1
skipped_round(round_count) == round_count - 1

\* one pass through the body of `while self.round_count < MAX_ROUNDS`, from the
\* context on: the loop objects and the frames of start() it may end in
round_body(L, run, context_struct, outcome, env) ==
    IF context_struct.raised
    THEN { [L |-> L, run |-> [run EXCEPT !.pc = "raised"], step |-> "raised"] }
    ELSE IF ~ has_target_content(L, context_struct)
    THEN UNION { { [L |-> jump_to_random_start(expanded, pos),
                    run |-> [run EXCEPT !.round_count = skipped_round(@)],
                    step |-> "skip"] :
                   pos \in jump_choices(expanded.tree) } :
                 expanded \in { auto_expand_tree(L, "insufficient_width", 1, env) } }
    ELSE IF outcome.task_error
    THEN { [L |-> jump_to_random_start(L, pos), run |-> run, step |-> "gen error"] :
             pos \in jump_choices(L.tree) }
    ELSE IF outcome.result.verdict = "ERROR"
    THEN { [L |-> research_both(L, outcome.got_a, outcome.got_b), run |-> run,
            step |-> "judge error"] }
    ELSE IF mercy_rule(scored(run, outcome.result.verdict))
    THEN { [L |-> research_both(L, outcome.got_a, outcome.got_b),
            run |-> [scored(run, outcome.result.verdict) EXCEPT !.pc = "done"],
            step |-> "game over"] }
    ELSE { [L |-> moved, run |-> scored(run, outcome.result.verdict),
            step |-> "evolution"] :
             moved \in next_step(research_both(L, outcome.got_a, outcome.got_b),
                                 outcome.result, env) }

\* the network while start() runs: page c cannot be fetched, so that the
\* expansions that reach it fail
StartEnvs == { env \in LoopEnvs : env.down = {"c"} }

\* start() up to the loop: self._jump_to_random_start()
BeginStart ==
    /\ start_run.pc = "idle"
    /\ \E pos \in jump_choices(tree) :
          Assigns(jump_to_random_start(Loop, pos))
    /\ start_run' = [start_run EXCEPT !.pc = "loop"]
    /\ last' = [op |-> "start", ret |-> FALSE, reloaded |-> FALSE]
    /\ UNCHANGED calls

\* one round of start(): the whole body of the while loop
PlayRound ==
    /\ start_run.pc = "loop"
    /\ start_run.round_count < MAX_ROUNDS
    /\ \E env \in StartEnvs, outcome \in RoundOutcomes :
         \E set_up \in { round_setup(Loop, width_shortfall(Loop), env) } :
           \E context_struct \in get_context_nodes(set_up) :
             \E after \in round_body(set_up,
                                     [start_run EXCEPT !.round_count = @ + 1],
                                     context_struct, outcome, env) :
                /\ Assigns(after.L)
                /\ start_run' = after.run
                /\ last' = [op |-> "round", ret |-> FALSE, reloaded |-> FALSE,
                            step |-> after.step]
    /\ UNCHANGED calls

\* the while condition fails: start() leaves the loop and returns the rounds
EndStart ==
    /\ start_run.pc = "loop"
    /\ start_run.round_count >= MAX_ROUNDS
    /\ start_run' = [start_run EXCEPT !.pc = "done"]
    /\ last' = [op |-> "start returns", ret |-> FALSE, reloaded |-> FALSE]
    /\ UNCHANGED << tournament, crawler_vars, tree_file, loop_vars, calls >>

NextStart == BeginStart \/ PlayRound \/ EndStart

\* the trees start() is run on: crawled from r one level deep
StartTrees ==
    { crawl_tree("r", {}, max_depth, MaxCrawlChildren, FALSE,
                 [down |-> down, order |-> BaseOrder, links |-> extracted_link]).node :
        max_depth \in 0..1, down \in Downs }

InitStart == InitOn(StartTrees)

\* the interpreter keeps running start() while it has a statement to run
SpecStart == InitStart /\ [][NextStart]_vars /\ WF_vars(NextStart)

-----------------------------------------------------------------------------
(* The head of a round on tree files whose sibling pages share URLs and titles *)

MaxSiblings == 3

MaxContextWidth == 3

\* a page of a tree file, one level below the root
SiblingPage(url, title, description, content) ==
    [WebsiteNode(url, extract_domain(url), 1, None) EXCEPT
        !.title = title, !.description = description, !.content = content,
        !.crawled = TRUE]

\* the pages a root may have as children: two pages with texts, a page with
\* another URL and the title of the second, a page without a title tag, a page
\* whose fetch failed, and a page with an empty title
SiblingPages ==
    { SiblingPage("a", "Arabica", None,
                  "Arabica beans are grown at altitude in cool shade."),
      SiblingPage("b", "Brewing", "Guide to brewing methods at home", None),
      SiblingPage("c", "Brewing", "Cups", None),
      SiblingPage("c", None, "Cups", None),
      fetch_failed(WebsiteNode("c", extract_domain("c"), 1, None), "Timeout"),
      SiblingPage("b", "", None, "Brewing extracts oils and acids from ground beans") }

ContextTrees ==
    { [WebsiteNode("r", extract_domain("r"), 0, None) EXCEPT
          !.title = "Coffee - Site", !.crawled = TRUE, !.children = children] :
        children \in UNION { [1..n -> SiblingPages] : n \in 0..MaxSiblings } }

\* the loop at the head of a round: at the root or at a valid child of it
InitContext ==
    /\ \E t \in ContextTrees, d \in DifficultyFloor..MaxContextWidth :
          \E pos \in { << >> } \cup
                      { << i >> : i \in { k \in 1..Len(t.children) :
                                             is_valid_node(to_dict(t.children[k])) } } :
             /\ tree_file = save_tree_to_json(t)
             /\ tree_node = load_tree_from_json(save_tree_to_json(t))
             /\ tree = to_dict(load_tree_from_json(save_tree_to_json(t)))
             /\ current_node = Ref(pos)
             /\ node_path_stack = PathTo(pos)
             /\ difficulty_nodes = d
    /\ visited_urls = {}
    /\ random_sampling = TRUE
    /\ conversation_history_a = << >>
    /\ conversation_history_b = << >>
    /\ history_snapshots = << 0 >>
    /\ last = Idle
    /\ calls = 0
    /\ tournament = NoTournament
    /\ start_run = NotStarted

NextContext ==
    \/ RoundSetup
    \/ GetContextNodes

SpecContext == InitContext /\ [][NextContext]_vars

-----------------------------------------------------------------------------
(* tournament_cli.py: the battle workers of one round *)

MaxWorkers == 2

MaxTreeFiles == 3

MaxPairings == 3

SEEDED_MODELS ==
    << "gpt-5.1-search", "gemini-2.5-pro-grounding", "o3-search", "grok-4-search",
       "ppl-sonar-pro-high", "claude-opus-4-1-search" >>

\* the orders the models may be ranked in, by the random.shuffle of round 1
\* and by the sort by score of the later rounds, over the first n seeded
\* models: the rotations of the seeded order, and the seeded order with its
\* second and third model exchanged
Rankings(n) ==
    { Rotate(SubSeq(SEEDED_MODELS, 1, n), k) : k \in 0..(n - 1) }
    \cup { [i \in 1..n |-> SEEDED_MODELS[IF n >= 3 /\ i \in {2, 3} THEN 5 - i ELSE i]] }

\* one line of ALL_DEBATE_FILE: its gamekey (tree_id, m_a, m_b); the line does
\* not hold the round it was written in, which written_in keeps beside it
DebateEntry(tree_id, m_a, m_b, round_num) ==
    [gamekey |-> << tree_id, m_a, m_b >>, written_in |-> round_num]

\* load_history_and_scores: match_history, the opponents each model has a
\* line with
match_history_of(all_debate_file, models) ==
    [m \in Range(models) |->
        { e.gamekey[3] : e \in { d \in all_debate_file : d.gamekey[2] = m } }
        \cup { e.gamekey[2] : e \in { d \in all_debate_file : d.gamekey[3] = m } }]

\* unpaired without its i-th model (unpaired.pop(i))
Popped(unpaired, i) ==
    SubSeq(unpaired, 1, i - 1) \o SubSeq(unpaired, i + 1, Len(unpaired))

\* action_pair, the while loop: p1 takes the first model left that it has not
\* met, or the first model left (a forced rematch); a model left alone stays
\* unpaired
RECURSIVE pair_up(_, _)
pair_up(unpaired, match_history) ==
    IF Len(unpaired) < 2 THEN << >>
    ELSE LET p1 == Head(unpaired)
             rest == Tail(unpaired)
             unmet == { i \in 1..Len(rest) : rest[i] \notin match_history[p1] }
             i == IF unmet # {} THEN CHOOSE c \in unmet : \A d \in unmet : c <= d
                  ELSE 1
         IN << << p1, rest[i] >> >> \o pair_up(Popped(rest, i), match_history)

\* action_pair(round_num): the pairings written to PAIRING_FILE
action_pair(round_num, ranked_models, all_debate_file) ==
    IF round_num = 1
    THEN pair_up(ranked_models, [m \in Range(ranked_models) |-> {}])
    ELSE pair_up(ranked_models, match_history_of(all_debate_file, ranked_models))

\* all_tasks: one task per pairing with an opponent and tree file, pairing by
\* pairing, each with its index i of enumerate
all_tasks(pairings, tree_files) ==
    LET played == SelectSeq([p \in 1..Len(pairings) |->
                                [p_idx |-> p - 1, m_a |-> pairings[p][1],
                                 m_b |-> pairings[p][2]]],
                            LAMBDA x : x.m_b # None)
    IN [k \in 1..(Len(played) * tree_files) |->
           [i |-> k - 1,
            p_idx |-> played[((k - 1) \div tree_files) + 1].p_idx,
            m_a |-> played[((k - 1) \div tree_files) + 1].m_a,
            m_b |-> played[((k - 1) \div tree_files) + 1].m_b,
            t_file |-> ((k - 1) % tree_files) + 1]]

\* my_tasks = [t for i, t in enumerate(all_tasks) if i % total_workers == worker_id]
my_tasks(tasks, worker_id, total_workers) ==
    SelectSeq(tasks, LAMBDA t : t.i % total_workers = worker_id)

\* f"R{round_num}_{m_a}_{m_b}_{tree_id}"
unique_key(round_num, m_a, m_b, tree_id) == << round_num, m_a, m_b, tree_id >>

\* completed_keys: a key for each line of ALL_DEBATE_FILE, made of the
\* round_num of PAIRING_FILE and the gamekey of the line
completed_keys_of(all_debate_file, round_num) ==
    { unique_key(round_num, e.gamekey[2], e.gamekey[3], e.gamekey[1]) :
        e \in all_debate_file }

\* the position of the first task from position k on whose key is not in
\* completed_keys (the tasks before it are skipped by continue)
RECURSIVE next_task(_, _, _, _)
next_task(tasks, k, completed_keys, round_num) ==
    IF k > Len(tasks) THEN k
    ELSE IF unique_key(round_num, tasks[k].m_a, tasks[k].m_b, tasks[k].t_file)
                \in completed_keys
         THEN next_task(tasks, k + 1, completed_keys, round_num)
         ELSE k

\* the battle workers of a round started together on what action_pair wrote
Battle(total_workers, round_num, pairings, tree_files, all_debate_file) ==
    [total_workers |-> total_workers,
     round_num |-> round_num,
     all_debate_file |-> all_debate_file,
     workers |->
        [worker_id \in 0..(total_workers - 1) |->
            [my_tasks |-> my_tasks(all_tasks(pairings, tree_files),
                                   worker_id, total_workers),
             completed_keys |-> completed_keys_of(all_debate_file, round_num),
             task |-> 1,
             skipped |-> {},
             started |-> {},
             running |-> FALSE,
             wrote |-> FALSE]]]

\* the lines a round leaves when every loop of it returned a result
RoundEntries(pairings, tree_files, round_num) ==
    { DebateEntry(t.t_file, t.m_a, t.m_b, round_num) :
        t \in Range(all_tasks(pairings, tree_files)) }

\* the worker processes of a round started together: each has read
\* PAIRING_FILE and ALL_DEBATE_FILE and is before its first task.  Round 1
\* starts with nothing recorded, or with one of its results recorded by an
\* earlier start of the workers; round 2 starts with the results of round 1
\* recorded
InitBattle ==
    /\ visited_urls = {}
    /\ random_sampling = TRUE
    /\ tree_file = NoTree
    /\ tree_node = NoTree
    /\ tree = NoTree
    /\ current_node = NoRef
    /\ node_path_stack = << >>
    /\ conversation_history_a = << >>
    /\ conversation_history_b = << >>
    /\ difficulty_nodes = 2
    /\ history_snapshots = << 0 >>
    /\ last = Idle
    /\ calls = 0
    /\ start_run = NotStarted
    /\ \E total_workers \in 1..MaxWorkers, tree_files \in 1..MaxTreeFiles,
          n \in 2..(2 * MaxPairings) :
          \E shuffled \in Rankings(n) :
             LET round1 == action_pair(1, shuffled, {})
                 entries == RoundEntries(round1, tree_files, 1)
             IN \/ \E completed \in { {} } \cup { {e} : e \in entries } :
                      tournament = Battle(total_workers, 1, round1, tree_files,
                                          completed)
                \/ \E ranked_models \in Rankings(n) :
                      tournament = Battle(total_workers, 2,
                                          action_pair(2, ranked_models, entries),
                                          tree_files, entries)

\* the tree file a worker's loop is running on
LoopFile(worker) == worker.my_tasks[worker.task].t_file

\* action_battle: the worker passes the tasks whose key is in completed_keys
\* and, at the first other task, constructs the EvolvementLoop, which loads
\* the tree file; with no such task left its loop over my_tasks ends
StartLoop ==
    \E worker_id \in DOMAIN tournament.workers :
        LET worker == tournament.workers[worker_id]
            k == next_task(worker.my_tasks, worker.task, worker.completed_keys,
                           tournament.round_num)
        IN /\ ~ worker.running
           /\ worker.task <= Len(worker.my_tasks)
           /\ tournament' = [tournament EXCEPT
                                 !.workers[worker_id].task = k,
                                 !.workers[worker_id].skipped =
                                     @ \cup (worker.task..(k - 1)),
                                 !.workers[worker_id].started =
                                     IF k <= Len(worker.my_tasks) THEN @ \cup {k} ELSE @,
                                 !.workers[worker_id].running =
                                     k <= Len(worker.my_tasks),
                                 !.workers[worker_id].wrote = FALSE]
           /\ UNCHANGED << start_run, crawler_vars, tree_file, loop_vars, last, calls >>

\* _auto_expand_tree of a running loop: save_tree_to_json(self.tree_node,
\* self.tree_file_path), then load_tree_from_json(self.tree_file_path)
SaveAndReload ==
    \E worker_id \in DOMAIN tournament.workers :
        /\ tournament.workers[worker_id].running
        /\ ~ tournament.workers[worker_id].wrote
        /\ tournament' = [tournament EXCEPT !.workers[worker_id].wrote = TRUE]
        /\ UNCHANGED << start_run, crawler_vars, tree_file, loop_vars, last, calls >>

\* action_battle: loop.start() returns and the entry is appended to
\* ALL_DEBATE_FILE, or it raises and the failure is logged
EndLoop ==
    \E worker_id \in DOMAIN tournament.workers, raised \in BOOLEAN :
        LET worker == tournament.workers[worker_id]
            task == worker.my_tasks[worker.task]
        IN /\ worker.running
           /\ tournament' = [tournament EXCEPT
                                 !.workers[worker_id].task = @ + 1,
                                 !.workers[worker_id].running = FALSE,
                                 !.all_debate_file =
                                     IF raised THEN @
                                     ELSE @ \cup { DebateEntry(task.t_file, task.m_a,
                                                               task.m_b,
                                                               tournament.round_num) }]
           /\ UNCHANGED << start_run, crawler_vars, tree_file, loop_vars, last, calls >>

NextBattle ==
    \/ StartLoop
    \/ SaveAndReload
    \/ EndLoop

SpecBattle == InitBattle /\ [][NextBattle]_vars

-----------------------------------------------------------------------------
(* The text functions of the crawler applied to texts and documents *)

\* anchor texts, surrounding texts and parent titles a link may come with
AnchorTexts ==
    {"Arabica", "Brewing", "Coffee cups", "Coffee", "How", "ESPRESSO", ""}

ContextTexts ==
    {"the arabica variety of coffee", "back to the top of this page",
     "brewing is a method of preparation", "cups sized for arabica espresso",
     "pour the brew into warm cups", "to roast beans at home",
     "the origin and history of the bean", "a French Press for the kitchen",
     "a study of its health effects", ""}

ParentTitles == {None, "Coffee - Site", "Brewing methods"}

\* the elements a document is built from, and the documents of at most
\* MaxElements elements
MaxElements == 2

Elements ==
    { Element("main", "", "", "Arabica beans are grown at altitude in cool shade."),
      Element("main", "", "", "Robusta beans are grown at low altitudes in heat."),
      Element("article", "", "", "Roasting darkens green beans. "),
      Element("p", "", "", "Kenyan beans taste bright"),
      Element("div", "Post-Body", "", "Brewing   extracts oils and  acids from ground beans using water"),
      Element("div", "", "page-content", "Grinding  exposes  more  surface  of  the  bean  fast"),
      Element("nav", "", "", "Arabica beans are grown at altitude in cool shade."),
      Element("div", "Sidebar-left", "", "Arabica beans are grown at altitude in cool shade.") }

Documents == UNION { [1..n -> Elements] : n \in 0..MaxElements }

\* each function is applied once to the input drawn for it
InitText ==
    /\ InitCrawler
    /\ random_sampling = TRUE

InferRelationship ==
    \E anchor_text \in AnchorTexts, context \in ContextTexts,
       parent_title \in ParentTitles :
        /\ last = Idle
        /\ last' = [op |-> "infer_relationship", anchor_text |-> anchor_text,
                    context |-> context, parent_title |-> parent_title,
                    ret |-> infer_relationship(anchor_text, context, parent_title)]
        /\ UNCHANGED << tournament, start_run, crawler_vars, tree_file, loop_vars, calls >>

ExtractContent ==
    \E elements \in Documents, raises \in BOOLEAN :
        LET soup == [raises |-> raises, elements |-> elements]
        IN /\ last = Idle
           /\ last' = [op |-> "extract_content", soup |-> soup,
                       ret |-> extract_content(soup)]
           /\ UNCHANGED << tournament, start_run, crawler_vars, tree_file, loop_vars, calls >>

-----------------------------------------------------------------------------
(* utils/tree_validator.py: TreeValidator *)

\* stats as get_tree_stats creates it; avg_width is kept as the two numbers
\* it is the quotient of
NewStats ==
    [max_depth |-> 0, total_nodes |-> 0, crawled_nodes |-> 0, failed_nodes |-> 0,
     nodes_by_depth |-> << >>, min_width_at_depth |-> << >>,
     max_width_at_depth |-> << >>, avg_width |-> << 0, 1 >>]

\* traverse, up to the width bookkeeping: the counters and nodes_by_depth
count_node(stats, node, depth) ==
    [stats EXCEPT !.total_nodes = @ + 1,
                  !.max_depth = Max(@, depth),
                  !.crawled_nodes = IF node.crawled THEN @ + 1 ELSE @,
                  !.failed_nodes = IF node.crawled THEN @ ELSE @ + 1,
                  !.nodes_by_depth = IF depth \in DOMAIN @
                                     THEN [@ EXCEPT ![depth] = @ + 1]
                                     ELSE (depth :> 1) @@ @]

\* traverse, `if node.children:` up to the recursion
track_width(stats, depth, child_count) ==
    IF depth \notin DOMAIN stats.min_width_at_depth
    THEN [stats EXCEPT !.min_width_at_depth = (depth :> child_count) @@ @,
                       !.max_width_at_depth = (depth :> child_count) @@ @]
    ELSE [stats EXCEPT !.min_width_at_depth[depth] = Min(@, child_count),
                       !.max_width_at_depth[depth] = Max(@, child_count)]

RECURSIVE traverse(_, _, _)
RECURSIVE traverse_children(_, _, _, _)
traverse(stats, node, depth) ==
    Only({ IF node.children = << >> THEN counted
           ELSE traverse_children(track_width(counted, depth, Len(node.children)),
                                  node.children, 1, depth + 1) :
           counted \in { count_node(stats, node, depth) } })

\* for child in node.children: traverse(child, depth + 1), from the i-th on
traverse_children(stats, children, i, depth) ==
    IF i > Len(children) THEN stats
    ELSE Only({ traverse_children(traversed, children, i + 1, depth) :
                traversed \in { traverse(stats, children[i], depth) } })

RECURSIVE SumOver(_, _)
SumOver(f, S) ==
    IF S = {} THEN 0
    ELSE LET x == CHOOSE x \in S : TRUE IN f[x] + SumOver(f, S \ {x})

get_tree_stats(root) ==
    Only({ IF DOMAIN stats.nodes_by_depth # {}
           THEN [stats EXCEPT !.avg_width =
                     << SumOver(stats.nodes_by_depth, DOMAIN stats.nodes_by_depth),
                        Cardinality(DOMAIN stats.nodes_by_depth) >>]
           ELSE stats :
           stats \in { traverse(NewStats, root, 0) } })

\* a validator that also turns down a tree of which exactly half was crawled
too_many_failed_at_half(stats) ==
    stats.total_nodes > 0 => 2 * stats.crawled_nodes <= stats.total_nodes

\* crawl_success_rate < 0.5, the rate being 0 for a tree without nodes
too_many_failed(stats) ==
    stats.total_nodes > 0 => 2 * stats.crawled_nodes < stats.total_nodes

\* the loop over range(stats['max_depth'])
has_sufficient_width(stats, min_width) ==
    \E depth \in 0..(stats.max_depth - 1) :
        /\ depth \in DOMAIN stats.min_width_at_depth
        /\ stats.min_width_at_depth[depth] >= min_width

validate_stats(stats, min_depth, min_width) ==
    IF stats.max_depth < min_depth
    THEN [is_valid |-> FALSE, reason |-> "depth", stats |-> stats]
    ELSE IF ~ has_sufficient_width(stats, min_width)
    THEN [is_valid |-> FALSE, reason |-> "width", stats |-> stats]
    ELSE IF too_many_failed(stats)
    THEN [is_valid |-> FALSE, reason |-> "failed crawls", stats |-> stats]
    ELSE IF stats.total_nodes < min_depth + min_width
    THEN [is_valid |-> FALSE, reason |-> "too few nodes", stats |-> stats]
    ELSE [is_valid |-> TRUE, reason |-> "Tree meets quality criteria", stats |-> stats]

validate_tree(root, min_depth, min_width) ==
    validate_stats(get_tree_stats(root), min_depth, min_width)

\* the largest min_depth and min_width validate_tree is called with
MaxCriterion == 3

\* a page of example.com as test_validator builds it
MockNode(crawled, children) ==
    [WebsiteNode("r", "example.com", 0, None) EXCEPT !.crawled = crawled,
                                                       !.children = children]

\* the trees a node of the given subtrees can head: a node that was not
\* crawled has no children, a crawled node has none, one or two
TreesOver(below) ==
    { MockNode(crawled, << >>) : crawled \in BOOLEAN }
        \cup { MockNode(TRUE, << child >>) : child \in below }
        \cup { MockNode(TRUE, << child1, child2 >>) : child1, child2 \in below }

\* the trees validate_tree is applied to, grandchildren at the deepest
ValidatedTrees == TreesOver(TreesOver(TreesOver({})))

\* root -> (child1 -> grandchild), child2: the mock tree of test_validator
MockTree ==
    MockNode(TRUE, << MockNode(TRUE, << MockNode(TRUE, << >>) >>),
                      MockNode(TRUE, << >>) >>)

ValidateTree ==
    \E root \in ValidatedTrees, min_depth \in 0..MaxCriterion,
       min_width \in 0..MaxCriterion :
        /\ last = Idle
        /\ last' = [op |-> "validate_tree", root |-> root, min_depth |-> min_depth,
                    min_width |-> min_width,
                    ret |-> validate_tree(root, min_depth, min_width)]
        /\ UNCHANGED << tournament, start_run, crawler_vars, tree_file, loop_vars, calls >>

MaxLinkTags == 2

\* the <a href> tags of a page, in document order
LinkDocuments == UNION { [1..n -> LinkTags] : n \in 0..MaxLinkTags }

ExtractLinks ==
    \E anchors \in LinkDocuments, filter_meaningful \in BOOLEAN :
        LET soup == [anchors |-> anchors, links |-> link_tags_extracted(filter_meaningful)]
        IN /\ last = Idle
           /\ last' = [op |-> "extract_links", anchors |-> anchors, base_url |-> "r",
                       filter_meaningful |-> filter_meaningful,
                       ret |-> extract_links(soup, "r", Web["r"].title)]
           /\ UNCHANGED << tournament, start_run, crawler_vars, tree_file, loop_vars, calls >>

NextText ==
    \/ InferRelationship
    \/ ExtractContent
    \/ ExtractLinks
    \/ ValidateTree

SpecText == InitText /\ [][NextText]_vars

-----------------------------------------------------------------------------
(* Properties of the crawler (SpecCrawl) *)

RECURSIVE DepthsFrom(_, _, _)
DepthsFrom(node, depth, max_depth) ==
    /\ node.depth = depth
    /\ depth <= max_depth
    /\ \A i \in 1..Len(node.children) :
          DepthsFrom(node.children[i], depth + 1, max_depth)

\* C7: in every tree crawl_tree returns the root has depth 0, every other node
\* has its parent's depth plus 1, and no node is deeper than max_depth
C7_CrawlDepths ==
    last.op = "crawl_tree" => DepthsFrom(last.ret, 0, last.max_depth)

\* a crawl with max_depth = 2 that fetched a page at depth 2 and stopped there
C7_CrawlStoppedAtLimit ==
    /\ last.op = "crawl_tree"
    /\ last.max_depth = 2
    /\ \E pos \in PositionSet(last.ret) :
          /\ Len(pos) = 2
          /\ NodeAt(last.ret, pos).crawled
          /\ NodeAt(last.ret, pos).depth = 2

-----------------------------------------------------------------------------
(* Properties of the expander (SpecExpand) *)

\* the children of the expanded node before and after the call
OldChildren == last.node.children

NewChildren == NodeAt(tree_node, last.pos).children

\* the link contexts of the expanded node that were not children before
FreeLinks ==
    SelectSeq(last.node.link_contexts,
              LAMBDA l : \A i \in 1..Len(OldChildren) : OldChildren[i].url # l.url)

\* C8: expand_width(node, k) with k >= 0 keeps every old child at its index,
\* and the node ends with min(old + k, old + available) children
C8_WidthKeepsChildren ==
    (last.op = "expand_width" /\ last.k >= 0) =>
        /\ Len(NewChildren) >= Len(OldChildren)
        /\ \A i \in 1..Len(OldChildren) : NewChildren[i] = OldChildren[i]
        /\ Len(NewChildren) = Min(Len(OldChildren) + last.k,
                                  Len(OldChildren) + Len(FreeLinks))

\* a width expansion of a node that had children, was asked for fewer links
\* than were free, and grew
C8_WidthGrewParent ==
    /\ last.op = "expand_width"
    /\ last.k >= 1
    /\ last.k < Len(FreeLinks)
    /\ OldChildren # << >>
    /\ Len(NewChildren) > Len(OldChildren)

\* C9: expand_width(node, k) on a crawled node (k >= 0) appends the first
\* min(k, available) link contexts that are not yet children, in link order,
\* visited or not, each at depth node.depth + 1, and returns their number and
\* the set of their URLs
C9_WidthAppendsFirstLinks ==
    (last.op = "expand_width" /\ last.k >= 0 /\ last.node.crawled) =>
        LET n == Min(last.k, Len(FreeLinks))
        IN /\ Len(NewChildren) = Len(OldChildren) + n
           /\ \A i \in 1..n :
                 /\ NewChildren[Len(OldChildren) + i].url = FreeLinks[i].url
                 /\ NewChildren[Len(OldChildren) + i].depth = last.node.depth + 1
           /\ last.added = n
           /\ last.new_urls = { FreeLinks[i].url : i \in 1..n }

\* a width expansion that appended a URL the visited set already held
C9_WidthAddedVisitedUrl ==
    /\ last.op = "expand_width"
    /\ last.k >= 1
    /\ last.added >= 1
    /\ \E u \in last.new_urls : u \in last.visited

-----------------------------------------------------------------------------
(* Properties of the navigation controller (Spec) *)

\* the URLs along a path stack, root first
PathUrls(t, stack) ==
    [i \in 1..Len(stack) |-> Get(NodeAt(t, stack[i].pos), "url")]

\* the positions of the valid nodes below the root
ValidBelowRoot ==
    { pos \in PositionSet(tree) :
        /\ Len(pos) >= 1
        /\ \/ OrEmpty(Get(NodeAt(tree, pos), "title")) # ""
           \/ OrEmpty(Get(NodeAt(tree, pos), "description")) # ""
           \/ OrEmpty(Get(NodeAt(tree, pos), "content")) # ""
           \/ Len(GetList(NodeAt(tree, pos), "children")) > 0 }

\* C1: after an auto_expand_tree call that reports success the URLs along
\* path_stack are the same as before the call, in number and at every index
C1_ExpandKeepsPathUrls ==
    [][(last'.op = "auto_expand_tree" /\ last'.ret) =>
          PathUrls(tree', node_path_stack') = PathUrls(tree, node_path_stack)]_vars

\* C2: after an auto_expand_tree call that reports success the URL of
\* path_stack[-1] and of current_node is the URL of the node that was current
\* before the call
C2_ExpandKeepsCurrentUrl ==
    [][(last'.op = "auto_expand_tree" /\ last'.ret) =>
          /\ Get(Deref(tree', current_node'), "url") =
                Get(Deref(tree, current_node), "url")
          /\ Get(Deref(tree', node_path_stack'[Len(node_path_stack')]), "url") =
                Get(Deref(tree, current_node), "url")]_vars

\* an expansion that succeeded while the controller stood below the root of a
\* tree with two or more branches
C2_ExpandedBelowRoot ==
    /\ last.op = "auto_expand_tree"
    /\ last.ret
    /\ Len(node_path_stack) >= 2
    /\ Len(GetList(tree, "children")) >= 2

\* C3: in every state path_stack is non-empty, starts at the root of the tree
\* the controller navigates, each element is a child of the one before it, and
\* current_node is the last element
C3_PathStackIsRootPath ==
    /\ node_path_stack # << >>
    /\ node_path_stack[1] = Ref(<< >>)
    /\ \A i \in 1..(Len(node_path_stack) - 1) :
          /\ node_path_stack[i + 1].live
          /\ \E j \in 1..Len(GetList(Deref(tree, node_path_stack[i]), "children")) :
                node_path_stack[i + 1].pos = node_path_stack[i].pos \o << j >>
    /\ current_node = node_path_stack[Len(node_path_stack)]

\* the controller stands two levels below the root after an advance that
\* expanded the tree
C3_AdvancedIntoExpansion ==
    /\ last.op = "advance_tree"
    /\ last.ret
    /\ last.reloaded
    /\ Len(node_path_stack) >= 3

\* C4: once auto_expand_tree has written and reloaded the tree, every element
\* of path_stack and current_node is a node of the loaded tree, so that no
\* later operation reads a node of the tree before the reload
C4_NoStaleNodes ==
    /\ \A i \in 1..Len(node_path_stack) :
          /\ node_path_stack[i].live
          /\ node_path_stack[i].pos \in PositionSet(tree)
    /\ current_node.live
    /\ current_node.pos \in PositionSet(tree)

\* the tree was reloaded while the controller stood below the root
C4_ReloadedBelowRoot ==
    /\ last.op = "auto_expand_tree"
    /\ last.reloaded
    /\ Len(node_path_stack) >= 2
    /\ tree = to_dict(load_tree_from_json(tree_file))

\* C5: advance_tree that returns success makes path_stack exactly one longer;
\* advance_tree that returns failure leaves path_stack as it was, also when it
\* expanded the tree on the way
C5_AdvanceStepsOrStays ==
    [][last'.op = "advance_tree" =>
          IF last'.ret
          THEN Len(node_path_stack') = Len(node_path_stack) + 1
          ELSE /\ node_path_stack' = node_path_stack
               /\ PathUrls(tree', node_path_stack') =
                     PathUrls(tree, node_path_stack)]_vars

\* C6: backtrack with only the root on path_stack returns failure and leaves
\* path_stack, current_node, history_snapshots, both conversation histories
\* and difficulty_nodes unchanged
C6_BacktrackAtRootRefused ==
    [][(last'.op = "backtrack" /\ Len(node_path_stack) = 1) =>
          /\ ~last'.ret
          /\ UNCHANGED << node_path_stack, current_node, history_snapshots,
                          conversation_history_a, conversation_history_b,
                          difficulty_nodes >>]_vars

\* backtrack was refused at the root with a conversation under way and the
\* difficulty raised
C6_RefusedWithHistory ==
    /\ last.op = "backtrack"
    /\ ~last.ret
    /\ Len(node_path_stack) = 1
    /\ conversation_history_a # << >>
    /\ history_snapshots # << >>
    /\ difficulty_nodes > DifficultyFloor

\* C10: jump_to_random_start ends below the root (path_stack of 2 or more)
\* whenever the tree has a valid node below the root, and at the root only
\* when it has none
C10_JumpLeavesRoot ==
    last.op = "jump_to_random_start" =>
        (Len(node_path_stack) >= 2 <=> ValidBelowRoot # {})

\* a jump below the root in a tree whose root has substantial text itself
C10_JumpedPastRichRoot ==
    /\ last.op = "jump_to_random_start"
    /\ Len(node_path_stack) >= 2
    /\ Len(OrEmpty(Get(tree, "description"))) > SubstantialLen

\* the positions below the root whose node has a description or content of
\* more than 20 characters
RichBelowRoot ==
    { pos \in PositionSet(tree) :
        /\ Len(pos) >= 1
        /\ \/ Len(OrEmpty(Get(NodeAt(tree, pos), "content"))) > 20
           \/ Len(OrEmpty(Get(NodeAt(tree, pos), "description"))) > 20 }

\* C11: when some node below the root has a description or content longer
\* than 20 characters, jump_to_random_start selects such a node, and one of
\* the least depth among them
C11_JumpPrefersShallowestRich ==
    (last.op = "jump_to_random_start" /\ RichBelowRoot # {}) =>
        /\ current_node.pos \in RichBelowRoot
        /\ \A pos \in RichBelowRoot : Len(current_node.pos) <= Len(pos)

\* a jump in a tree where the root has a child with only a short description
\* and richer nodes lie at depths 1 and 2
C11_JumpedOverPoorSibling ==
    /\ last.op = "jump_to_random_start"
    /\ \E i \in 1..Len(GetList(tree, "children")) :
          /\ << i >> \notin RichBelowRoot
          /\ OrEmpty(Get(tree.children[i], "description")) # ""
    /\ \E pos \in RichBelowRoot : Len(pos) = 2
    /\ current_node.pos \in RichBelowRoot

\* crawled is false exactly when error is set, and a node that is not crawled
\* carries no title, description or content
node_at_rest(n) ==
    /\ (~ Get(n, "crawled")) <=> (Get(n, "error") # None)
    /\ (~ Get(n, "crawled")) =>
          /\ Get(n, "title") = None
          /\ Get(n, "description") = None
          /\ Get(n, "content") = None

\* C12: in the tree a crawl returned and in the tree every width or depth
\* expansion leaves behind, each node has crawled false exactly when its error
\* is set, and a node that is not crawled has no title, description or content.
C12_NodesCrawledOrFailed ==
    \A pos \in PositionSet(tree_node) : node_at_rest(NodeAt(tree_node, pos))

\* an expansion has left a failed child beside a crawled one
C12_ExpandedWithFailedChild ==
    /\ last.op \in {"expand_width", "expand_depth"}
    /\ \E pos \in PositionSet(tree_node) :
          LET n == NodeAt(tree_node, pos)
          IN \E i, j \in 1..Len(GetList(n, "children")) :
                /\ ~ n.children[i].crawled
                /\ n.children[i].error # None
                /\ n.children[j].crawled

\* C13: the evidence width difficulty_nodes is an integer that is at least 2 in
\* every state of the loop: after raises, advances, backtracks and the reset
\* that follows a refused backtrack.
C13_DifficultyAtLeastTwo ==
    /\ difficulty_nodes \in Nat
    /\ difficulty_nodes >= 2

\* a backtrack has succeeded and the width stands at the floor
C13_BacktrackedToFloor ==
    /\ last.op = "backtrack"
    /\ last.ret
    /\ difficulty_nodes = 2
    /\ Len(node_path_stack) >= 1

\* C14: the tree a crawl returned comes back from to_dict and from_dict, and
\* from the file save_tree_to_json wrote, with the same nesting, the same order
\* of children and link contexts, and the same value in every field.
C14_SaveLoadRoundTrip ==
    last.op = "crawl_tree" =>
        /\ from_dict(to_dict(last.ret)) = last.ret
        /\ load_tree_from_json(save_tree_to_json(last.ret)) = last.ret
        /\ load_tree_from_json(tree_file) = last.ret

\* a saved tree two levels deep with two children under the root, links that
\* carry a relationship, a failed node and unset fields
C14_SavedNestedTree ==
    /\ last.op = "crawl_tree"
    /\ Len(last.ret.children) = 2
    /\ \E i \in 1..2 : Len(last.ret.children[i].children) >= 1
    /\ \E i \in 1..2 : last.ret.children[i].error # None
    /\ \E i \in 1..Len(last.ret.link_contexts) :
          last.ret.link_contexts[i].relationship # None
    /\ last.ret.content = None

\* C15: whatever way the GET ends (timeout, a response that is not HTML, a
\* request error, a parse error, success), the fetch returns either a document
\* and no error or no document and an error; and in the tree a crawl returns, a
\* node whose fetch failed is a leaf with crawled false and its error set, while
\* every other node of the tree, its later siblings included, was still
\* processed (it is crawled or carries an error of its own).
C15_FetchFailureIsLocal ==
    /\ \A kind \in ResponseKinds, url \in URLs :
          LET got == fetch([kind |-> kind, page |-> Web[url]])
          IN \/ got.soup # NoSoup /\ got.error = None
             \/ got.soup = NoSoup /\ got.error # None
    /\ last.op = "crawl_tree" =>
          \A pos \in PositionSet(last.ret) :
              LET n == NodeAt(last.ret, pos)
              IN /\ n.crawled \/ n.error # None
                 /\ n.error # None => (~ n.crawled /\ n.children = << >>)

\* a child whose fetch failed is followed by a sibling that was crawled
C15_CrawledAfterFailedSibling ==
    /\ last.op = "crawl_tree"
    /\ \E i, j \in 1..Len(last.ret.children) :
          /\ i < j
          /\ last.ret.children[i].error = "Non-HTML content"
          /\ ~ last.ret.children[i].crawled
          /\ last.ret.children[j].crawled

-----------------------------------------------------------------------------
(* Properties of the text functions (SpecText) *)

\* the categories in the priority order of the claim
RelationshipOrder ==
    << "origins/locations", "types/varieties", "processes/methods",
       "products/drinks", "components/ingredients", "history/timeline",
       "people/organizations", "health/effects", "culture/economics",
       "equipment/tools" >>

\* some keyword of the category occurs in the text
Matches(category, text) ==
    \E n \in 1..Len(relationships) :
        /\ relationships[n].relationship = category
        /\ \E k \in 1..Len(relationships[n].indicators) :
              Occurs(relationships[n].indicators[k], text)

\* C16: the category returned for an anchor text and a surrounding text is the
\* first one, in the order origins/locations, types/varieties,
\* processes/methods, products/drinks, components/ingredients,
\* history/timeline, people/organizations, health/effects, culture/economics,
\* equipment/tools, that has a keyword occurring in the two texts lower-cased
\* and joined, and "related topics" when no category has one; the title of the
\* parent page makes no difference to it.
C16_FirstMatchingCategory ==
    last.op = "infer_relationship" =>
        LET combined == Lower(last.anchor_text) \o " " \o Lower(last.context)
            hit == { i \in 1..Len(RelationshipOrder) :
                       Matches(RelationshipOrder[i], combined) }
        IN /\ hit = {} => last.ret = "related topics"
           /\ hit # {} =>
                 \E i \in hit : /\ last.ret = RelationshipOrder[i]
                                /\ \A j \in hit : i <= j
           /\ \A parent_title \in ParentTitles :
                 last.ret = infer_relationship(last.anchor_text, last.context,
                                               parent_title)

\* a link whose texts hit two categories, with upper-case letters in the
\* anchor and a parent title that carries a keyword of a third
C16_ClassifiedAmongSeveral ==
    /\ last.op = "infer_relationship"
    /\ last.anchor_text = "ESPRESSO"
    /\ last.context = "a French Press for the kitchen"
    /\ last.parent_title = "Brewing methods"
    /\ last.ret = "products/drinks"

\* C17: extract_content returns nothing when the cleaned, whitespace-collapsed
\* text of the content area has fewer than 50 characters and when an exception
\* is raised while the document is handled; what it returns otherwise is that
\* text, of 50 characters or more.
C17_ContentAtLeastFifty ==
    last.op = "extract_content" =>
        LET text == content_text(last.soup)
        IN /\ Len(text) < 50 => last.ret = None
           /\ last.soup.raises => last.ret = None
           /\ (Len(text) >= 50 /\ ~ last.soup.raises) => last.ret = text
           /\ last.ret # None => Len(last.ret) >= 50

\* a text of exactly 50 characters was returned, and a text that falls below
\* 50 characters only once its whitespace is collapsed can be drawn
C17_ReturnedTextOfFifty ==
    /\ last.op = "extract_content"
    /\ last.ret # None
    /\ Len(last.ret) = 50
    /\ Len(last.soup.elements) = 2
    /\ \E d \in Documents :
          /\ Len(get_text(main_content(d))) >= 50
          /\ extract_content([raises |-> FALSE, elements |-> d]) = None

-----------------------------------------------------------------------------
(* Properties of the visited set and of child selection (SpecCrawl) *)

\* the URLs in visited_urls when the crawl enters the k-th node in pre-order:
\* those visited before the call and those of the nodes entered before it
VisitedAtEntry(k) ==
    last.visited_before
        \cup { NodeAt(last.ret, Positions(last.ret)[j]).url : j \in 1..(k - 1) }

\* C18: in the tree a crawl returns, a node (the root included) whose URL was
\* already in visited_urls when it was entered has crawled false, the error
\* "Already visited" and no children, and was not fetched; every other node
\* was fetched once and its URL is in visited_urls; over all the crawl_tree
\* calls of one crawler no URL is fetched twice.
C18_EachUrlFetchedOnce ==
    last.op = "crawl_tree" =>
        LET order == Positions(last.ret)
            skipped == { k \in 1..Len(order) :
                           NodeAt(last.ret, order[k]).url \in VisitedAtEntry(k) }
            entered == (1..Len(order)) \ skipped
            all == last.fetched_before \o last.fetched
        IN /\ \A k \in skipped :
                 LET n == NodeAt(last.ret, order[k])
                 IN /\ ~ n.crawled
                    /\ n.error = "Already visited"
                    /\ n.children = << >>
           /\ \A k \in entered :
                 /\ NodeAt(last.ret, order[k]).error # "Already visited"
                 /\ NodeAt(last.ret, order[k]).url \in visited_urls
           /\ Len(last.fetched) = Cardinality(entered)
           /\ Range(last.fetched) =
                 { NodeAt(last.ret, order[k]).url : k \in entered }
           /\ \A i, j \in 1..Len(all) : i # j => all[i] # all[j]
           /\ Range(all) \subseteq visited_urls

\* the second crawl of one crawler fetched its root and skipped a child that
\* had been visited below an earlier sibling
C18_SecondCrawlSkippedChild ==
    /\ last.op = "crawl_tree"
    /\ calls = 2
    /\ last.fetched_before # << >>
    /\ last.ret.crawled
    /\ \E i, j \in 1..Len(last.ret.children) :
          /\ i < j
          /\ last.ret.children[j].error = "Already visited"
          /\ \E k \in 1..Len(last.ret.children[i].children) :
                last.ret.children[i].children[k].url = last.ret.children[j].url

\* the index in pre-order of the node at pos
PreorderIndex(pos) ==
    CHOOSE k \in 1..Len(Positions(last.ret)) : Positions(last.ret)[k] = pos

\* C19: in the tree a crawl returns no node has more than max_children
\* children; a node with children was fetched successfully and lies at a depth
\* below max_depth; and the URL of each child is the URL of one of the link
\* contexts of its parent and was not in visited_urls when the children of the
\* parent were selected.
C19_ChildrenBoundedAndFresh ==
    last.op = "crawl_tree" =>
        \A pos \in PositionSet(last.ret) :
            LET n == NodeAt(last.ret, pos)
                seen == VisitedAtEntry(PreorderIndex(pos)) \cup {n.url}
            IN /\ Len(n.children) <= last.max_children
               /\ n.children # << >> =>
                     /\ n.crawled
                     /\ n.error = None
                     /\ n.depth < last.max_depth
               /\ \A i \in 1..Len(n.children) :
                     /\ \E l \in 1..Len(n.link_contexts) :
                           n.link_contexts[l].url = n.children[i].url
                     /\ n.children[i].url \notin seen

\* the root has more links than max_children and as many children as
\* max_children, and a node below it has a link that was left out as visited
C19_SelectedUnderLimit ==
    /\ last.op = "crawl_tree"
    /\ last.max_children = 2
    /\ Len(last.ret.link_contexts) = 3
    /\ Len(last.ret.children) = 2
    /\ \E i \in 1..2 :
          LET n == last.ret.children[i]
          IN /\ n.children # << >>
             /\ Len(n.children) < Len(n.link_contexts)
             /\ Len(n.children) < last.max_children

-----------------------------------------------------------------------------
(* Width expansion with nothing to add (SpecExpand) *)

\* the node was never crawled, or each of its links is already a child of it
NothingToAdd(node) ==
    \/ ~ node.crawled
    \/ \A l \in 1..Len(node.link_contexts) :
          \E i \in 1..Len(node.children) :
              node.children[i].url = node.link_contexts[l].url

\* C20: expand_width on a node that was never crawled, or whose link contexts
\* all lead to URLs that are already children of it, returns 0 and the empty
\* set, fetches nothing, and leaves the children of the node, the rest of the
\* tree and the visited set of the crawler as they were.
C20_NothingToAddChangesNothing ==
    [][(/\ last'.op = "expand_width"
        /\ NothingToAdd(NodeAt(tree_node, last'.pos)))
       => /\ last'.added = 0
          /\ last'.new_urls = {}
          /\ last'.fetched = << >>
          /\ tree_node' = tree_node
          /\ visited_urls' = last'.visited]_vars

\* a crawled node all of whose links are children was asked for more children
C20_AskedWithAllLinksUsed ==
    /\ last.op = "expand_width"
    /\ last.k >= 1
    /\ last.node.crawled
    /\ last.node.link_contexts # << >>
    /\ NothingToAdd(last.node)
    /\ last.added = 0
    /\ \E pos \in PositionSet(tree_node) : ~ NodeAt(tree_node, pos).crawled

-----------------------------------------------------------------------------
(* Depth expansion (SpecExpand) *)

\* the subtree new, made for the first time by the expansion: each node one
\* deeper than its parent, none deeper than target_depth, none with more than
\* max_children children
RECURSIVE AddedSubtree(_, _, _, _)
AddedSubtree(new, depth, target_depth, max_children) ==
    /\ new.depth = depth
    /\ depth <= target_depth
    /\ Len(new.children) <= max_children
    /\ new.children # << >> => depth < target_depth
    /\ \A i \in 1..Len(new.children) :
          AddedSubtree(new.children[i], depth + 1, target_depth, max_children)

\* the subtree new is the subtree old grown by the expansion
RECURSIVE GrownSubtree(_, _, _, _)
GrownSubtree(old, new, target_depth, max_children) ==
    /\ new.url = old.url
    /\ new.depth = old.depth
    /\ new.depth <= target_depth
    /\ Len(new.children) >= Len(old.children)
    /\ \A i \in 1..Len(old.children) :
          GrownSubtree(old.children[i], new.children[i], target_depth,
                       max_children)
    /\ Len(new.children) > Len(old.children) =>
          /\ old.depth < target_depth
          /\ Len(new.children) <= max_children
    /\ \A i \in (Len(old.children) + 1)..Len(new.children) :
          AddedSubtree(new.children[i], old.depth + 1, target_depth,
                       max_children)

\* C21: expand_depth with target_depth = (the greatest depth in the subtree of
\* the node before the call) + additional_depth adds children only to nodes
\* of the subtree at a depth below target_depth, each new child one deeper than
\* its parent, so that no node of the subtree ends deeper than target_depth;
\* the children a node had stay at their places; and a node that received new
\* children ends with at most max_children children.
C21_DepthExpansionBounded ==
    last.op = "expand_depth" =>
        GrownSubtree(last.node, NodeAt(tree_node, last.pos),
                     find_max_depth(last.node) + last.additional_depth,
                     last.max_children)

\* a node with a child was topped up to max_children = 2 children while a
\* third link was free, and its subtree reached target_depth
C21_ToppedUpToLimit ==
    /\ last.op = "expand_depth"
    /\ last.max_children = 2
    /\ Len(last.node.children) = 1
    /\ Len(last.node.link_contexts) = 3
    /\ Len(NodeAt(tree_node, last.pos).children) = 2
    /\ find_max_depth(NodeAt(tree_node, last.pos)) =
          find_max_depth(last.node) + 1

-----------------------------------------------------------------------------
(* The node an expansion is applied to (Spec) *)

\* the position the expansion is meant for: the current position for a depth
\* expansion, the parent position for a width expansion
TargetPos(failure_type) ==
    IF failure_type = "insufficient_depth" THEN current_node.pos
    ELSE node_path_stack[Len(node_path_stack) - 1].pos

\* C22: auto_expand_tree("insufficient_depth") grows the subtree at the current
\* position and auto_expand_tree("insufficient_width") appends children to the
\* node at the parent position; every node outside that position, also one
\* with the same URL, keeps its children.
C22_ExpandsAtPosition ==
    [][(/\ last'.op = "auto_expand_tree"
        /\ last'.failure_type = "insufficient_width" => Len(node_path_stack) >= 2)
       => LET pos == TargetPos(last'.failure_type)
              old == NodeAt(tree_node, pos)
              new == NodeAt(tree_node', pos)
          IN /\ ReplaceAt(tree_node', pos, old) = tree_node
             /\ last'.failure_type = "insufficient_width" =>
                   \A i \in 1..Len(old.children) : new.children[i] = old.children[i]
      ]_vars

\* C23: auto_expand_tree writes the tree file and reloads the tree only when
\* the expansion added a node; when it returns failure (a width expansion at
\* the root, no node added) path_stack, current_node, difficulty_nodes and the
\* tree file are as before the call.
C23_FailureChangesNothing ==
    [][last'.op = "auto_expand_tree" =>
          /\ (last'.reloaded \/ tree_file' # tree_file) =>
                count_nodes(tree_node') > count_nodes(tree_node)
          /\ ~ last'.ret =>
                /\ node_path_stack' = node_path_stack
                /\ current_node' = current_node
                /\ difficulty_nodes' = difficulty_nodes
                /\ tree_file' = tree_file
                /\ ~ last'.reloaded]_vars

\* a depth expansion below the root that added nothing and reported failure,
\* after an earlier expansion had rewritten the file
C23_FailedBelowRoot ==
    /\ last.op = "auto_expand_tree"
    /\ ~ last.ret
    /\ last.failure_type = "insufficient_depth"
    /\ Len(node_path_stack) >= 2
    /\ calls = 2
    /\ tree_file = save_tree_to_json(tree_node)
    /\ count_nodes(tree_node) >= 4

\* C24 as stated: a backtrack from below the root returns success, removes
\* exactly the last path_stack entry, makes the former parent the current
\* node, pops the most recent history snapshot, truncates both conversation
\* histories to that index and sets difficulty_nodes to max(2, difficulty_nodes - 1).
C24_AlwaysPopsSnapshot ==
    [][(last'.op = "backtrack" /\ Len(node_path_stack) > 1) =>
          /\ last'.ret
          /\ node_path_stack' = SubSeq(node_path_stack, 1, Len(node_path_stack) - 1)
          /\ current_node' = node_path_stack[Len(node_path_stack) - 1]
          /\ difficulty_nodes' = Max(2, difficulty_nodes - 1)
          /\ history_snapshots # << >>
          /\ history_snapshots' = SubSeq(history_snapshots, 1, Len(history_snapshots) - 1)
          /\ conversation_history_a' =
                SlicePrefix(conversation_history_a, history_snapshots[Len(history_snapshots)])
          /\ conversation_history_b' =
                SlicePrefix(conversation_history_b, history_snapshots[Len(history_snapshots)])
      ]_vars

\* C24 amended: a backtrack from below the root returns success, removes
\* exactly the last path_stack entry, makes the former parent the current node
\* and sets difficulty_nodes to max(2, difficulty_nodes - 1); when a history
\* snapshot is recorded it pops the most recent one and truncates both
\* conversation histories to that index, and when none is recorded it leaves
\* the snapshots and both histories as they are.
C24_BacktrackPopsOneLevel ==
    [][(last'.op = "backtrack" /\ Len(node_path_stack) > 1) =>
          /\ last'.ret
          /\ node_path_stack' = SubSeq(node_path_stack, 1, Len(node_path_stack) - 1)
          /\ current_node' = node_path_stack[Len(node_path_stack) - 1]
          /\ difficulty_nodes' = Max(2, difficulty_nodes - 1)
          /\ IF history_snapshots # << >>
             THEN /\ history_snapshots' =
                        SubSeq(history_snapshots, 1, Len(history_snapshots) - 1)
                  /\ conversation_history_a' =
                        SlicePrefix(conversation_history_a,
                                    history_snapshots[Len(history_snapshots)])
                  /\ conversation_history_b' =
                        SlicePrefix(conversation_history_b,
                                    history_snapshots[Len(history_snapshots)])
             ELSE /\ history_snapshots' = history_snapshots
                  /\ conversation_history_a' = conversation_history_a
                  /\ conversation_history_b' = conversation_history_b
      ]_vars

\* a successful backtrack that popped a snapshot and cut agent A's history
C24_HistoryRestored ==
    /\ last.op = "backtrack"
    /\ last.ret
    /\ last.snapshots_before >= 1
    /\ Len(history_snapshots) = last.snapshots_before - 1
    /\ Len(conversation_history_a) < last.history_before

\* the length of the stripped content of the node a reference points to
ContentLen(t, ref) == Len(Strip(OrEmpty(Get(Deref(t, ref), "content"))))

\* C25: advance_tree requests a depth expansion (one more expander call) only
\* when no child of the current node has stripped content longer than 20
\* characters; on success the new current node is the last path_stack entry, a
\* child of the entry before it, with content longer than 20 characters, and
\* longer than 50 when an expansion was requested, and history_snapshots gains
\* exactly the length of agent A's history before the descent; without an
\* expansion the descent is below the former current node; on failure
\* history_snapshots is unchanged.
C25_AdvanceDescendsToValidChild ==
    [][last'.op = "advance_tree" =>
          LET expanded == calls' # calls
              depth == Len(node_path_stack')
          IN /\ expanded =>
                   \A i \in 1..Len(GetList(Deref(tree, current_node), "children")) :
                      ContentLen(tree, Ref(current_node.pos \o << i >>)) <= 20
             /\ last'.ret =>
                   /\ depth >= 2
                   /\ current_node' = node_path_stack'[depth]
                   /\ \E i \in 1..Len(GetList(Deref(tree', node_path_stack'[depth - 1]), "children")) :
                         current_node'.pos = node_path_stack'[depth - 1].pos \o << i >>
                   /\ Get(Deref(tree', node_path_stack'[depth - 1]), "url") =
                         Get(Deref(tree, current_node), "url")
                   /\ ~ expanded => node_path_stack' = Append(node_path_stack, current_node')
                   /\ ContentLen(tree', current_node') > (IF expanded THEN 50 ELSE 20)
                   /\ history_snapshots' =
                         Append(history_snapshots, Len(conversation_history_a))
                   /\ conversation_history_a' = conversation_history_a
             /\ ~ last'.ret => history_snapshots' = history_snapshots
      ]_vars

\* an advance that expanded the tree and descended past a sibling whose
\* content is longer than 20 but not longer than 50 characters
C25_DescendedAfterExpansion ==
    /\ last.op = "advance_tree"
    /\ last.ret
    /\ last.reloaded
    /\ Len(node_path_stack) >= 2
    /\ ContentLen(tree, current_node) > 50
    /\ \E i \in 1..Len(GetList(Deref(tree, node_path_stack[Len(node_path_stack) - 1]), "children")) :
          LET n == ContentLen(tree, Ref(node_path_stack[Len(node_path_stack) - 1].pos \o << i >>))
          IN n > 20 /\ n <= 50

\* the number of children the parent of the current node has in the dict tree
ParentChildCount ==
    Len(GetList(Deref(tree, node_path_stack[Len(node_path_stack) - 1]), "children"))

\* C26: at the head of a round, when the controller is below the root and the
\* parent of the current node has fewer children than difficulty_nodes, one
\* width expansion is requested for exactly difficulty_nodes minus the parent's
\* child count (and the tree grows by at most that many nodes); when the parent
\* has at least difficulty_nodes children, or the controller is at the root,
\* no expansion is requested and the tree and its file stay as they are. The
\* context is computed only right after this step, and changes nothing.
C26_RoundSetupRequestsShortfall ==
    [][/\ last'.op = "round_setup" =>
             IF Len(node_path_stack) >= 2 /\ ParentChildCount < difficulty_nodes
             THEN /\ last'.requested = difficulty_nodes - ParentChildCount
                  /\ calls' = calls + 1
                  /\ count_nodes(tree_node') - count_nodes(tree_node) <= last'.requested
             ELSE /\ last'.requested = 0
                  /\ calls' = calls
                  /\ tree_node' = tree_node
                  /\ tree_file' = tree_file
       /\ last'.op = "get_context_nodes" =>
             /\ last.op = "round_setup"
             /\ tree_node' = tree_node
             /\ calls' = calls
      ]_vars

\* a round that began below the root after the width was raised to 3, with a
\* parent of two children, and whose expansion for one more child succeeded
C26_ShortfallRequested ==
    /\ last.op = "round_setup"
    /\ last.requested = 1
    /\ last.ret
    /\ last.reloaded
    /\ difficulty_nodes = 3
    /\ Len(node_path_stack) >= 2
    /\ ParentChildCount = 3

\* the stored title of the node a reference points to
TitleAt(ref) == Get(Deref(tree, ref), "title")

\* C27: the aggregation_pool _get_context_nodes returns starts with the
\* current node and has at most difficulty_nodes nodes; its other elements are
\* pairwise distinct children of the current node's parent, each a valid node
\* with a URL other than the current node's; no two nodes of the pool have the
\* same non-empty title; at the root the pool is exactly [current node].
C27_PoolOfDistinctSiblings ==
    (last.op = "get_context_nodes" /\ ~ last.raised) =>
        LET pool == last.aggregation_pool
            depth == Len(node_path_stack)
        IN /\ Len(pool) >= 1
           /\ pool[1] = current_node
           /\ Len(pool) <= difficulty_nodes
           /\ \A i, j \in 1..Len(pool) : i # j => pool[i] # pool[j]
           /\ \A i \in 2..Len(pool) :
                 /\ depth >= 2
                 /\ \E k \in 1..Len(GetList(Deref(tree, node_path_stack[depth - 1]), "children")) :
                       pool[i].pos = node_path_stack[depth - 1].pos \o << k >>
                 /\ is_valid_node(Deref(tree, pool[i]))
                 /\ Get(Deref(tree, pool[i]), "url") # Get(Deref(tree, current_node), "url")
           /\ \A i, j \in 1..Len(pool) :
                 (i # j /\ TitleAt(pool[i]) # None /\ TitleAt(pool[i]) # "")
                     => TitleAt(pool[i]) # TitleAt(pool[j])
           /\ depth = 1 => pool = << current_node >>

\* a pool of two at width 3: the third child, valid and under another URL, was
\* left out because it has the title of the sibling already pooled
C27_SameTitleSiblingLeftOut ==
    /\ last.op = "get_context_nodes"
    /\ ~ last.raised
    /\ difficulty_nodes = 3
    /\ Len(last.aggregation_pool) = 2
    /\ \E k \in 1..Len(GetList(Deref(tree, node_path_stack[1]), "children")) :
          /\ Ref(<< k >>) \notin Range(last.aggregation_pool)
          /\ is_valid_node(Deref(tree, Ref(<< k >>)))
          /\ TitleAt(Ref(<< k >>)) = TitleAt(last.aggregation_pool[2])
          /\ Get(Deref(tree, Ref(<< k >>)), "url") #
                Get(Deref(tree, last.aggregation_pool[2]), "url")

\* C28: the reasoning_chain _get_context_nodes returns is empty when
\* path_stack has 1 entry, [root] when it has exactly 2, and the two entries
\* path_stack[-3], path_stack[-2], in that order, when it has 3 or more; the
\* current node is never in it.
C28_ChainPrecedesCurrent ==
    (last.op = "get_context_nodes" /\ ~ last.raised) =>
        LET chain == last.reasoning_chain
            depth == Len(node_path_stack)
        IN /\ depth = 1 => chain = << >>
           /\ depth = 2 => chain = << Ref(<< >>) >> /\ chain = << node_path_stack[1] >>
           /\ depth >= 3 => chain = << node_path_stack[depth - 2], node_path_stack[depth - 1] >>
           /\ \A i \in 1..Len(chain) : chain[i] # current_node
           /\ \A i \in 1..Len(chain) : Len(chain[i].pos) < Len(current_node.pos)

\* a context computed two levels below the root: the chain is the root and
\* the parent of the current node
C28_ChainOfTwo ==
    /\ last.op = "get_context_nodes"
    /\ ~ last.raised
    /\ Len(node_path_stack) = 3
    /\ last.reasoning_chain = << Ref(<< >>), node_path_stack[2] >>
    /\ Len(current_node.pos) = 2

\* C29: each tree file has a single writer at any time: no two battle workers
\* run an evolvement loop on the same tree file at the same time.
C29_SingleWriterPerTreeFile ==
    \A w1, w2 \in DOMAIN tournament.workers :
        (/\ w1 # w2
         /\ tournament.workers[w1].running
         /\ tournament.workers[w2].running)
            => LoopFile(tournament.workers[w1]) # LoopFile(tournament.workers[w2])

\* C30: the list extract_links returns for one page never contains two
\* LinkContexts with the same normalized (fragment-stripped) URL.
C30_LinksDeduplicated ==
    last.op = "extract_links" =>
        \A i, j \in 1..Len(last.ret) :
            i # j => normalize_url(last.ret[i].url) # normalize_url(last.ret[j].url)

\* the length of the text around a link once its anchor text is taken out,
\* as _is_meaningful_link measures it
context_without_anchor(link) ==
    Len(StripText(Remove(Lower(link.surrounding_text), Lower(link.anchor_text))))

DeepestLevel(root) ==
    Only({ d \in 0..Cardinality(PositionSet(root)) :
             /\ \E pos \in PositionSet(root) : Len(pos) = d
             /\ \A pos \in PositionSet(root) : Len(pos) <= d })

\* the four conditions of a valid tree, read off the tree itself
MeetsCriteria(root, min_depth, min_width) ==
    LET nodes == PositionSet(root)
    IN /\ DeepestLevel(root) >= min_depth
       /\ \E d \in 0..(DeepestLevel(root) - 1) :
              \A pos \in nodes :
                  (Len(pos) = d /\ NodeAt(root, pos).children # << >>)
                      => Len(NodeAt(root, pos).children) >= min_width
       /\ 2 * Cardinality({ pos \in nodes : NodeAt(root, pos).crawled })
              >= Cardinality(nodes)
       /\ Cardinality(nodes) >= min_depth + min_width

\* C32: validate_tree reports a tree valid exactly when its depth is at least
\* min_depth, some depth above the deepest has only child-bearing nodes of at
\* least min_width children, at least half of the nodes are crawled and there
\* are at least min_depth + min_width nodes; the stats carry the true
\* max_depth and total_nodes (2 and 4 for the mock tree of the test).
C32_ValidExactlyOnCriteria ==
    last.op = "validate_tree" =>
        /\ last.ret.is_valid <=> MeetsCriteria(last.root, last.min_depth, last.min_width)
        /\ last.ret.stats.max_depth = DeepestLevel(last.root)
        /\ last.ret.stats.total_nodes = Cardinality(PositionSet(last.root))
        /\ last.root = MockTree =>
               last.ret.stats.max_depth = 2 /\ last.ret.stats.total_nodes = 4

C32_MockTreeValid ==
    /\ last.op = "validate_tree"
    /\ last.root = MockTree
    /\ last.min_depth = 2
    /\ last.min_width = 2
    /\ last.ret.is_valid
    /\ last.ret.stats.nodes_by_depth = (0 :> 1) @@ (1 :> 2) @@ (2 :> 1)

\* C33: in every tree at rest after a crawl and the expansions that follow it,
\* a node with crawled = false has no children and no link_contexts, and an
\* expansion called on such a node adds nothing and leaves it as it was.
C33_UncrawledNodesAreLeaves ==
    /\ \A pos \in PositionSet(tree_node) :
           ~ NodeAt(tree_node, pos).crawled =>
               /\ NodeAt(tree_node, pos).children = << >>
               /\ NodeAt(tree_node, pos).link_contexts = << >>
    /\ (last.op \in {"expand_width", "expand_depth"} /\ ~ last.node.crawled) =>
           /\ last.added = 0
           /\ last.new_urls = {}
           /\ NodeAt(tree_node, last.pos) = last.node

\* a depth expansion that added nodes and passed over a failed node above its
\* target depth
C33_ExpansionPassedFailedNode ==
    /\ last.op = "expand_depth"
    /\ last.added > 0
    /\ \E pos \in PositionSet(last.node) :
           /\ ~ NodeAt(last.node, pos).crawled
           /\ NodeAt(last.node, pos).depth
                  < find_max_depth(last.node) + last.additional_depth
           /\ NodeAt(last.node, pos).error # "Already visited"

C35_BacktrackUndoesAdvance ==
    [][(last.op = "advance_tree" /\ last.ret /\ last'.op = "backtrack") =>
          /\ [i \in 1..Len(node_path_stack') |-> node_path_stack'[i].pos]
                 = [i \in 1..Len(last.stack_before) |-> last.stack_before[i].pos]
          /\ Len(conversation_history_a') = last.history_a_before
          /\ Len(conversation_history_b') = last.history_b_before]_vars

\* C36: start() always terminates: it leaves the round loop after at most
\* MAX_ROUNDS rounds whatever the collaborators return, and the rounds it
\* reports never exceed MAX_ROUNDS.
C36_StartTerminates ==
    /\ [](start_run.round_count <= MAX_ROUNDS)
    /\ <>(start_run.pc \in {"done", "raised"})

\* the children of node have pairwise distinct URLs
distinct_children(node) ==
    \A i, j \in 1..Len(node.children) :
        node.children[i].url = node.children[j].url => i = j

\* C37: expand_width never gives a node two children with the same URL: if
\* the children of node have pairwise distinct URLs before the call they have
\* pairwise distinct URLs after it, and the returned count equals the number
\* of URLs in the returned set.
C37_WidthKeepsChildrenDistinct ==
    last.op = "expand_width" =>
        /\ distinct_children(last.node) =>
               distinct_children(NodeAt(tree_node, last.pos))
        /\ last.added = Cardinality(last.new_urls)

\* C38: get_context_nodes completes and returns a context without raising for
\* every position the controller can reach, including a current node whose
\* title is unset (null) in the tree.
C38_ContextNeverRaises ==
    last.op = "get_context_nodes" => ~ last.raised

\* C39: action_battle skips a task of the current round only if a result for
\* that same round, model pair and tree is already recorded in the debate
\* history (a result recorded in an earlier round for the same pair and tree
\* does not cause the skip), and every task of the worker that is not skipped
\* is run.
C39_SkipsOnlyResultsOfThisRound ==
    tournament # NoTournament =>
        \A worker_id \in DOMAIN tournament.workers :
            LET worker == tournament.workers[worker_id]
            IN /\ \A j \in worker.skipped :
                      DebateEntry(worker.my_tasks[j].t_file, worker.my_tasks[j].m_a,
                                  worker.my_tasks[j].m_b, tournament.round_num)
                          \in tournament.all_debate_file
               /\ \A j \in 1..(worker.task - 1) :
                      j \in worker.skipped \/ j \in worker.started

\* C40: expand_width called with a requested count k <= 0 adds no children,
\* performs no fetch and returns (0, empty set).
C40_NonPositiveWidthAddsNothing ==
    (last.op = "expand_width" /\ last.k <= 0) =>
        /\ NodeAt(tree_node, last.pos).children = last.node.children
        /\ last.fetched = << >>
        /\ last.added = 0
        /\ last.new_urls = {}

====
